---- MODULE Spec2Model ----
(***************************************************************************)
(* Model of the OpenExempt allocation engine (source/solver.py) and of the *)
(* replay of claim maps in the evaluator (evaluator.py).                   *)
(*                                                                         *)
(* Dollar amounts are integers.  Python's None is the integer None for an  *)
(* optional number and the string NoCitation for an optional citation.     *)
(* A dict whose insertion order is observable (claimed_exemptions) is a    *)
(* sequence of entries; a dict that is only summed or looked up is a       *)
(* function.                                                               *)
(***************************************************************************)
EXTENDS Integers, Sequences, FiniteSets, TLC

\* ---------------------------------------------------------------- bounds
MaxCalls == 3        \* allocate_claim_amount calls on one state (Spec)
MaxAmount == 2       \* largest requested amount (Spec)
NegAmount == 1       \* the negative requested amount is -NegAmount (Spec)
MaxAssets == 2       \* assets of a case (SpecSolve)
MaxValue == 3        \* largest dollar_value of an asset (SpecSolve)
MaxScoreAssets == 2  \* assets of a scored case (SpecScore)
MaxScoreValue == 2   \* largest dollar_value of a scored asset (SpecScore)
MaxEntries == 2      \* entries of a candidate claim map (SpecScore)
MaxClaims == 2       \* claims of a candidate claim map (SpecScore)
MaxClaimValue == 2   \* largest claim_value of a candidate (SpecScore)
NegClaimValue == 1   \* the negative claim value is -NegClaimValue (SpecScore)
MaxTargetAssets == 2 \* assets of a case whose target is scored (SpecTarget)
MaxTargetValue == 3  \* largest dollar_value of such an asset (SpecTarget)
MaxValidateValue == 1   \* largest dollar_value and claim_value (SpecValidate)
MaxValidateEntries == 2 \* entries of a candidate claim map (SpecValidate)
MaxValidateClaims == 2  \* claims of a candidate claim map (SpecValidate)
MaxReplayAssets == 2 \* assets of a case whose candidate is replayed (SpecReplay)
MaxReplayValue == 2  \* largest dollar_value of such an asset (SpecReplay)
MaxReplayClaims == 2 \* claims replayed one by one (SpecReplay)
MaxObjectCalls == 3  \* calls on the engine of SpecObjects
MaxObjectAssets == 2  \* assets of a case of SpecObjects
MaxObjectValue == 2  \* dollar value of an asset, and amount requested, in SpecObjects
MaxPruneAssets == 2  \* assets of a list the search is called on (SpecPrune)
MaxPruneValue == 2   \* largest dollar_value of such an asset (SpecPrune)
MaxIncumbent == 2    \* largest total of an incumbent passed to the search (SpecPrune)

\* ---------------------------------------------------------------- values
None == -1
NoCitation == "none"

Min(a, b) == IF a <= b THEN a ELSE b

Range(s) == {s[i] : i \in DOMAIN s}

\* A for loop over a list: the body F applied to the state so far and to
\* each element in turn, the state of every step computed once.
RECURSIVE FoldLeft(_, _, _)
FoldLeft(F(_, _), state, list) ==
    IF list = << >> THEN state
    ELSE CHOOSE end \in { FoldLeft(F, next, Tail(list)) :
                            next \in { F(state, Head(list)) } } : TRUE

RECURSIVE SumValues(_)
SumValues(f) ==
    IF DOMAIN f = {} THEN 0
    ELSE LET k == CHOOSE x \in DOMAIN f : TRUE
         IN f[k] + SumValues([x \in DOMAIN f \ {k} |-> f[x]])

Jurisdictions == {"FEDERAL", "STATE"}

\* statute.py: Exemption
Exemption(cit, sl, ml, pil, sicc, micc, fb, sfl, mfl, mx) ==
    [citation |-> cit, single_limit |-> sl, married_limit |-> ml,
     per_item_limit |-> pil,
     single_item_claim_count |-> sicc, married_item_claim_count |-> micc,
     fallback_relationship |-> fb,
     single_fallback_limit |-> sfl, married_fallback_limit |-> mfl,
     mutual_exclusion |-> mx]

Plain(cit, sl, ml) ==
    Exemption(cit, sl, ml, None, None, None, NoCitation, None, None, NoCitation)

\* asset.py: Asset
Asset(d, v, ae) == [description |-> d, dollar_value |-> v, applicable_exemptions |-> ae]

\* ------------------------------------------------------------- catalogs
\* A catalog is what Solver.__init__ receives: one statute set per
\* jurisdiction (statute_set.py), here with its exemptions in file order.
\* Item-limited exemptions have limits that their item count divides, so
\* that limit / count is the integer limit \div count.
StatuteSet(j, opted, exs) == [jurisdiction |-> j, has_opted_out |-> opted, statutes |-> exs]

\* plain limits, an unlimited exemption with a per-item limit
CatalogLimits ==
    [STATE |-> StatuteSet("STATE", FALSE,
        << Plain("A", 3, 6), Plain("B", 3, 6), Plain("C", 1, 2) >>),
     FEDERAL |-> StatuteSet("FEDERAL", FALSE,
        << Plain("F", 2, 4),
           Exemption("G", None, None, 1, None, None, NoCitation, None, None, NoCitation) >>)]

\* item-claim counts and mutual exclusions
CatalogItems ==
    [STATE |-> StatuteSet("STATE", TRUE,
        << Exemption("A", 2, 4, None, None, None, NoCitation, None, None, "C"),
           Exemption("B", 4, 6, None, 2, 3, NoCitation, None, None, NoCitation),
           Exemption("C", 1, 2, None, None, None, NoCitation, None, None, "B") >>),
     FEDERAL |-> StatuteSet("FEDERAL", FALSE,
        << Exemption("F", 2, 4, None, 2, 2, NoCitation, None, None, "G"),
           Exemption("G", 2, 2, None, None, None, NoCitation, None, None, "F") >>)]

\* fallback relationships, one of them onto an exemption it also excludes
CatalogFallback ==
    [STATE |-> StatuteSet("STATE", FALSE,
        << Exemption("A", 2, 4, None, None, None, "B", 1, 2, NoCitation),
           Plain("B", 3, 6),
           Exemption("C", None, None, 2, None, None, NoCitation, None, None, NoCitation) >>),
     FEDERAL |-> StatuteSet("FEDERAL", FALSE,
        << Exemption("F", 2, 4, None, 2, 2, "G", 2, 2, "G"),
           Plain("G", 2, 3) >>)]

Catalogs == << CatalogLimits, CatalogItems, CatalogFallback >>

\* a chain of fallback relationships: C falls back on the item-limited B,
\* which falls back on the unlimited A
CatalogChain ==
    [STATE |-> StatuteSet("STATE", TRUE,
        << Plain("A", None, None),
           Exemption("B", 2, 2, None, 2, 2, "A", 1, 1, NoCitation),
           Exemption("C", 1, 1, None, None, None, "B", 1, 1, NoCitation) >>),
     FEDERAL |-> StatuteSet("FEDERAL", FALSE, << Plain("F", 2, 4) >>)]

\* statute_set.py: StatuteSet.exemption_citations
exemption_citations(statute_set) ==
    [i \in DOMAIN statute_set.statutes |-> statute_set.statutes[i].citation]

\* statute_set.py: StatuteSet.allowable_exemption_jurisdictions
allowable_exemption_jurisdictions(statute_set) ==
    IF statute_set.has_opted_out THEN << statute_set.jurisdiction >>
    ELSE << "FEDERAL", statute_set.jurisdiction >>

\* --------------------------------------------------------------- Solver
\* `x if count else None` of Solver.__init__: a count of None or 0 is falsy.
ItemClaimAmount(limit, count) ==
    IF count # None /\ count # 0 THEN limit \div count ELSE None

\* Solver.__init__: the per-jurisdiction, per-marital-status tables.
SolverInit(statute_set_map) ==
    LET ByCitation(j, F(_)) ==
            LET exs == statute_set_map[j].statutes
            IN [c \in {exs[i].citation : i \in DOMAIN exs} |->
                    F(CHOOSE e \in Range(exs) : e.citation = c)]
        Table(F(_)) == [j \in DOMAIN statute_set_map |-> ByCitation(j, F)]
    IN [statute_set_map |-> statute_set_map,
        exemption_map |-> Table(LAMBDA e : e),
        single_exemption_map |-> Table(LAMBDA e : e.single_limit),
        married_exemption_map |-> Table(LAMBDA e : e.married_limit),
        single_item_claim_count_map |-> Table(LAMBDA e : e.single_item_claim_count),
        married_item_claim_count_map |-> Table(LAMBDA e : e.married_item_claim_count),
        single_item_claim_amount_map |->
            Table(LAMBDA e : ItemClaimAmount(e.single_limit, e.single_item_claim_count)),
        married_item_claim_amount_map |->
            Table(LAMBDA e : ItemClaimAmount(e.married_limit, e.married_item_claim_count)),
        single_fallback_relationship_map |->
            Table(LAMBDA e : [from_citation |-> e.fallback_relationship,
                              balance |-> e.single_fallback_limit]),
        married_fallback_relationship_map |->
            Table(LAMBDA e : [from_citation |-> e.fallback_relationship,
                              balance |-> e.married_fallback_limit])]

\* Solver.citations_for_jurisdictions, for the one-jurisdiction lists its callers pass
citations_for_jurisdictions(slv, j) == Range(exemption_citations(slv.statute_set_map[j]))

\* Solver.init_solution: a deep copy of the tables of the jurisdiction
init_solution(slv, married, j) ==
    [exemptions |-> slv.exemption_map[j],
     unclaimed_exemptions |->
        IF married THEN slv.married_exemption_map[j] ELSE slv.single_exemption_map[j],
     claimed_exemptions |-> << >>,
     non_exempt_assets |-> << >>,
     remaining_item_claim_counts |->
        IF married THEN slv.married_item_claim_count_map[j]
        ELSE slv.single_item_claim_count_map[j],
     item_claim_amounts |->
        IF married THEN slv.married_item_claim_amount_map[j]
        ELSE slv.single_item_claim_amount_map[j],
     remaining_fallback_relationships |->
        IF married THEN slv.married_fallback_relationship_map[j]
        ELSE slv.single_fallback_relationship_map[j],
     excluded_exemptions |-> << >>]

\* ------------------------------------------------------------- Solution
\* Solution.total_non_exempt_value
total_non_exempt_value(sol) == SumValues(sol.non_exempt_assets)

\* _process_claim granting the request whatever the balance
process_claim_uncapped(sol, citation, claim_amount) ==
    LET available_amount == sol.unclaimed_exemptions[citation]
    IN IF available_amount = None
       THEN [amount |-> claim_amount, solution |-> sol]
       ELSE [amount |-> claim_amount,
             solution |-> [sol EXCEPT !.unclaimed_exemptions[citation] =
                                IF @ >= claim_amount THEN @ - claim_amount ELSE 0]]

\* Solution._process_claim: [amount, solution]
process_claim(sol, citation, claim_amount) ==
    LET available_amount == sol.unclaimed_exemptions[citation]
    IN IF available_amount = None
       THEN [amount |-> claim_amount, solution |-> sol]
       ELSE IF available_amount >= claim_amount
       THEN [amount |-> claim_amount,
             solution |-> [sol EXCEPT !.unclaimed_exemptions[citation] = @ - claim_amount]]
       ELSE [amount |-> available_amount,
             solution |-> IF available_amount > 0
                          THEN [sol EXCEPT !.unclaimed_exemptions[citation] = 0]
                          ELSE sol]

\* Lines 45-47 with the per-item amount taken whatever the request
max_claim_amount_of_item(sol, citation, claim_amount) ==
    LET item_claim_amount ==
            IF sol.remaining_item_claim_counts[citation] # None
            THEN sol.item_claim_amounts[citation] ELSE None
        capped == IF item_claim_amount = None THEN claim_amount
                  ELSE item_claim_amount
        per_item_limit == sol.exemptions[citation].per_item_limit
    IN IF per_item_limit = None THEN capped ELSE Min(per_item_limit, capped)

\* Lines 45-47 of allocate_claim_amount: the request capped by the per-item
\* amount of an item-limited exemption and by per_item_limit.
max_claim_amount(sol, citation, claim_amount) ==
    LET item_claim_amount ==
            IF sol.remaining_item_claim_counts[citation] # None
            THEN sol.item_claim_amounts[citation] ELSE None
        capped == IF item_claim_amount = None THEN claim_amount
                  ELSE Min(item_claim_amount, claim_amount)
        per_item_limit == sol.exemptions[citation].per_item_limit
    IN IF per_item_limit = None THEN capped ELSE Min(per_item_limit, capped)

\* The fallback draw asking the source for the whole capped request
fallback_claim_whole_request(sol, citation, max_amount, amount_claimed) ==
    LET rel == sol.remaining_fallback_relationships[citation]
    IN IF rel.from_citation = NoCitation
       THEN [amount |-> amount_claimed, solution |-> sol]
       ELSE LET remaining_claim_amount == Min(rel.balance, max_amount)
                drawn == process_claim(sol, rel.from_citation, remaining_claim_amount)
            IN IF drawn.amount > 0
               THEN [amount |-> amount_claimed + drawn.amount,
                     solution |->
                        [drawn.solution EXCEPT
                            !.remaining_fallback_relationships[citation].balance =
                                rel.balance - drawn.amount]]
               ELSE [amount |-> amount_claimed, solution |-> drawn.solution]

\* The fallback draw leaving the fallback budget as it was
fallback_claim_budget_kept(sol, citation, max_amount, amount_claimed) ==
    LET rel == sol.remaining_fallback_relationships[citation]
    IN IF rel.from_citation = NoCitation
       THEN [amount |-> amount_claimed, solution |-> sol]
       ELSE LET remaining_claim_amount == Min(rel.balance, max_amount - amount_claimed)
                drawn == process_claim(sol, rel.from_citation, remaining_claim_amount)
            IN [amount |-> amount_claimed + drawn.amount, solution |-> drawn.solution]

\* Lines 49-57: the draw on the fallback source after the exemption's own
\* balance gave amount_claimed < max_amount.
fallback_claim(sol, citation, max_amount, amount_claimed) ==
    LET rel == sol.remaining_fallback_relationships[citation]
    IN IF rel.from_citation = NoCitation
       THEN [amount |-> amount_claimed, solution |-> sol]
       ELSE LET remaining_claim_amount == Min(rel.balance, max_amount - amount_claimed)
                drawn == process_claim(sol, rel.from_citation, remaining_claim_amount)
            IN IF drawn.amount > 0
               THEN [amount |-> amount_claimed + drawn.amount,
                     solution |->
                        [drawn.solution EXCEPT
                            !.remaining_fallback_relationships[citation].balance =
                                rel.balance - drawn.amount]]
               ELSE [amount |-> amount_claimed, solution |-> drawn.solution]

\* Line 43: one item claim of the citation is used up.
use_item_claim_keeping_count(sol, citation) == sol

\* Line 43 taking two item claims for one call
use_item_claim_twice(sol, citation) ==
    [sol EXCEPT !.remaining_item_claim_counts[citation] = @ - 2]

use_item_claim(sol, citation) ==
    [sol EXCEPT !.remaining_item_claim_counts[citation] = @ - 1]

\* Solution.allocate_claim_amount: [amount, solution]
allocate_claim_amount(sol, citation, claim_amount) ==
    IF citation \in Range(sol.excluded_exemptions)
    THEN [amount |-> 0, solution |-> sol]
    ELSE
    LET remaining_item_claim_count == sol.remaining_item_claim_counts[citation]
    IN IF remaining_item_claim_count # None /\ remaining_item_claim_count < 1
       THEN [amount |-> 0, solution |-> sol]
       ELSE
       LET counted == IF remaining_item_claim_count # None
                      THEN use_item_claim(sol, citation)
                      ELSE sol
           max_amount == max_claim_amount(sol, citation, claim_amount)
           own == process_claim(counted, citation, max_amount)
       IN IF own.amount < max_amount
          THEN fallback_claim(own.solution, citation, max_amount, own.amount)
          ELSE own

\* The list of claims of one asset after claim_exemption (lines 80-87):
\* the entry of the citation grows, or a new entry is appended.
merge_claim(claims, citation, claim_amount) ==
    IF \E i \in DOMAIN claims : claims[i].citation = citation
    THEN LET k == CHOOSE i \in DOMAIN claims :
                    /\ claims[i].citation = citation
                    /\ \A h \in 1..(i - 1) : claims[h].citation # citation
         IN [claims EXCEPT ![k].claim_value = @ + claim_amount]
    ELSE Append(claims, [citation |-> citation, claim_value |-> claim_amount])

\* Line 77: the mutual-exclusion target joins excluded_exemptions.
trigger_exclusion_dropped(sol, exemption) == sol.excluded_exemptions

trigger_exclusion(sol, exemption) ==
    IF exemption.mutual_exclusion # NoCitation
    THEN Append(sol.excluded_exemptions, exemption.mutual_exclusion)
    ELSE sol.excluded_exemptions

\* Solution.claim_exemption
claim_exemption(sol, citation, asset_description, claim_amount) ==
    LET exemption == sol.exemptions[citation]
        excluded == trigger_exclusion(sol, exemption)
        entries == sol.claimed_exemptions
        present == IF \E i \in DOMAIN entries : entries[i].asset = asset_description
                   THEN entries
                   ELSE Append(entries, [asset |-> asset_description, claims |-> << >>])
        k == CHOOSE i \in DOMAIN present : present[i].asset = asset_description
    IN [sol EXCEPT !.excluded_exemptions = excluded,
                   !.claimed_exemptions =
                        [present EXCEPT ![k].claims = merge_claim(@, citation, claim_amount)]]

\* Solution.item_claim_exists
item_claim_exists(sol, citation) ==
    LET remaining_item_claim_count == sol.remaining_item_claim_counts[citation]
    IN remaining_item_claim_count # None /\ remaining_item_claim_count > 0

\* --------------------------------------------------------------- search
\* `optimal = None`, and the RecursionError that ends a search whose
\* recursion has no end.
NoSolution == [none |-> TRUE]
RecursionError == [raised |-> "RecursionError"]
IsError(s) == "raised" \in DOMAIN s

\* min(a, b) of two solutions: Solution.__lt__ compares the totals, and
\* min returns its first argument unless the second is smaller.
MinSolution(a, b) ==
    IF total_non_exempt_value(b) < total_non_exempt_value(a) THEN b ELSE a

\* `x if optimal is None else min(x, optimal)`
KeepBest(new_solution, optimal) ==
    IF optimal = NoSolution THEN new_solution ELSE MinSolution(new_solution, optimal)

\* The prune test of line 164
Prune(new_solution, optimal) ==
    /\ optimal # NoSolution
    /\ total_non_exempt_value(new_solution) >= total_non_exempt_value(optimal)

RemoveCitation(citations, citation) == SelectSeq(citations, LAMBDA e : e # citation)

\* Line 181: the asset's value less what was just allocated.
remaining_asset_unreduced(asset, allocated_amount) == asset

remaining_asset(asset, allocated_amount) ==
    [asset EXCEPT !.dollar_value = @ - allocated_amount]

RECURSIVE recursive_optimal_exemption_search(_, _, _)
RECURSIVE citation_loop(_, _, _, _)

\* The call of line 185 when it passes on the very assets and solution of
\* the frame that makes it: the callee reaches the same citation with the
\* same state and makes the same call again, whatever the incumbent, so the
\* recursion has no end and the interpreter raises RecursionError.
RepeatsCaller(updated_assets, new_solution, assets, solution_) ==
    updated_assets = assets /\ new_solution = solution_

\* Solver.recursive_optimal_exemption_search
recursive_optimal_exemption_search(assets, solution_, optimal) ==
    IF assets = << >> THEN KeepBest(solution_, optimal)
    ELSE
    LET asset == assets[1]
    IN IF asset.applicable_exemptions = << >>
       THEN LET new_solution ==
                    [solution_ EXCEPT !.non_exempt_assets =
                        (asset.description :> asset.dollar_value) @@ @]
            IN IF Prune(new_solution, optimal) THEN optimal
               ELSE recursive_optimal_exemption_search(Tail(assets), new_solution, optimal)
       ELSE LET new_optimal == citation_loop(assets, solution_, optimal, 1)
            IN IF IsError(new_optimal) THEN new_optimal
               ELSE LET updated_assets == [assets EXCEPT ![1].applicable_exemptions = << >>]
                        new_solution == recursive_optimal_exemption_search(
                                            updated_assets, solution_, new_optimal)
                    IN IF IsError(new_solution) THEN new_solution
                       ELSE KeepBest(new_solution, new_optimal)

\* The for loop of lines 170-190, from the i-th applicable exemption on.
citation_loop(assets, solution_, new_optimal, i) ==
    LET asset == assets[1]
    IN IF i > Len(asset.applicable_exemptions) THEN new_optimal
       ELSE
       LET citation == asset.applicable_exemptions[i]
           allocation == allocate_claim_amount(solution_, citation, asset.dollar_value)
           allocated_amount == allocation.amount
           claimed == IF allocated_amount > 0
                      THEN claim_exemption(allocation.solution, citation,
                                           asset.description, allocated_amount)
                      ELSE allocation.solution
           updated_asset == remaining_asset(asset, allocated_amount)
           new_solution ==
               IF allocated_amount = asset.dollar_value
               THEN recursive_optimal_exemption_search(Tail(assets), claimed, new_optimal)
               ELSE IF item_claim_exists(claimed, citation)
               THEN IF RepeatsCaller(<< updated_asset >> \o Tail(assets), claimed,
                                     assets, solution_)
                    THEN RecursionError
                    ELSE recursive_optimal_exemption_search(
                            << updated_asset >> \o Tail(assets), claimed, new_optimal)
               ELSE recursive_optimal_exemption_search(
                        << [updated_asset EXCEPT !.applicable_exemptions =
                                RemoveCitation(@, citation)] >> \o Tail(assets),
                        claimed, new_optimal)
       IN IF IsError(new_solution) THEN new_solution
          ELSE citation_loop(assets, solution_, KeepBest(new_solution, new_optimal), i + 1)

RECURSIVE search_without_prune(_, _, _)
RECURSIVE citation_loop_without_prune(_, _, _, _)

\* Solver.recursive_optimal_exemption_search with lines 164-165 removed:
\* the asset without applicable exemptions is followed by the recursion of
\* line 166, whatever the incumbent.
search_without_prune(assets, solution_, optimal) ==
    IF assets = << >> THEN KeepBest(solution_, optimal)
    ELSE
    LET asset == assets[1]
    IN IF asset.applicable_exemptions = << >>
       THEN search_without_prune(
                Tail(assets),
                [solution_ EXCEPT !.non_exempt_assets =
                    (asset.description :> asset.dollar_value) @@ @],
                optimal)
       ELSE LET new_optimal == citation_loop_without_prune(assets, solution_, optimal, 1)
            IN IF IsError(new_optimal) THEN new_optimal
               ELSE LET updated_assets == [assets EXCEPT ![1].applicable_exemptions = << >>]
                        new_solution == search_without_prune(
                                            updated_assets, solution_, new_optimal)
                    IN IF IsError(new_solution) THEN new_solution
                       ELSE KeepBest(new_solution, new_optimal)

\* The for loop of lines 170-190 of that search
citation_loop_without_prune(assets, solution_, new_optimal, i) ==
    LET asset == assets[1]
    IN IF i > Len(asset.applicable_exemptions) THEN new_optimal
       ELSE
       LET citation == asset.applicable_exemptions[i]
           allocation == allocate_claim_amount(solution_, citation, asset.dollar_value)
           allocated_amount == allocation.amount
           claimed == IF allocated_amount > 0
                      THEN claim_exemption(allocation.solution, citation,
                                           asset.description, allocated_amount)
                      ELSE allocation.solution
           updated_asset == remaining_asset(asset, allocated_amount)
           new_solution ==
               IF allocated_amount = asset.dollar_value
               THEN search_without_prune(Tail(assets), claimed, new_optimal)
               ELSE IF item_claim_exists(claimed, citation)
               THEN IF RepeatsCaller(<< updated_asset >> \o Tail(assets), claimed,
                                     assets, solution_)
                    THEN RecursionError
                    ELSE search_without_prune(
                            << updated_asset >> \o Tail(assets), claimed, new_optimal)
               ELSE search_without_prune(
                        << [updated_asset EXCEPT !.applicable_exemptions =
                                RemoveCitation(@, citation)] >> \o Tail(assets),
                        claimed, new_optimal)
       IN IF IsError(new_solution) THEN new_solution
          ELSE citation_loop_without_prune(assets, solution_,
                                           KeepBest(new_solution, new_optimal), i + 1)

\* sorted(assets, key=len(applicable_exemptions)): a stable sort
SortByOptionCount(assets) ==
    LET counts == {Len(assets[i].applicable_exemptions) : i \in DOMAIN assets}
        RECURSIVE From(_)
        From(n) ==
            IF \A c \in counts : c < n THEN << >>
            ELSE SelectSeq(assets, LAMBDA a : Len(a.applicable_exemptions) = n) \o From(n + 1)
    IN From(0)

\* Lines 147-152 keeping only the assets the jurisdiction has an exemption for
FilterAssets_dropping(slv, assets, j) ==
    SelectSeq([i \in DOMAIN assets |->
                 [assets[i] EXCEPT !.applicable_exemptions =
                     SelectSeq(@, LAMBDA c : c \in citations_for_jurisdictions(slv, j))]],
              LAMBDA asset : asset.applicable_exemptions # << >>)

\* Lines 147-152: the case's assets with the exemptions of the jurisdiction
FilterAssets(slv, assets, j) ==
    [i \in DOMAIN assets |->
        [assets[i] EXCEPT !.applicable_exemptions =
            SelectSeq(@, LAMBDA c : c \in citations_for_jurisdictions(slv, j))]]

\* Solver.solve_case_for_jurisdiction
solve_case_for_jurisdiction(slv, case_, j) ==
    recursive_optimal_exemption_search(
        SortByOptionCount(FilterAssets(slv, case_.assets, j)),
        init_solution(slv, case_.married, j), NoSolution)

\* Solver.solve_optimal_exemptions, from the list of line 237: min returns
\* the first solution that no other is smaller than.
\* The first solution taken, whatever the others total
min_solution_first(solutions) == solutions[1]

RECURSIVE min_solution(_)
min_solution(solutions) ==
    IF Len(solutions) = 1 THEN solutions[1]
    ELSE MinSolution(min_solution(SubSeq(solutions, 1, Len(solutions) - 1)),
                     solutions[Len(solutions)])

\* The list of line 237
RECURSIVE jurisdiction_solutions(_, _, _)
jurisdiction_solutions(slv, case_, allowable_jurisdictions) ==
    IF allowable_jurisdictions = << >> THEN << >>
    ELSE << solve_case_for_jurisdiction(slv, case_, Head(allowable_jurisdictions)) >>
            \o jurisdiction_solutions(slv, case_, Tail(allowable_jurisdictions))

\* [raised, target]: the claimed_exemptions returned, unless a search raised
solve_optimal_exemptions(slv, case_, allowable_jurisdictions) ==
    CHOOSE sample \in
        { IF \E i \in DOMAIN solutions : IsError(solutions[i])
          THEN [raised |-> "RecursionError", target |-> << >>]
          ELSE [raised |-> "none", target |-> min_solution(solutions).claimed_exemptions] :
            solutions \in { jurisdiction_solutions(slv, case_, allowable_jurisdictions) } } :
        TRUE

\* ------------------------------------------------------------ Evaluator
\* str.strip and str.lower, on the strings that occur: citations are upper
\* case in the catalogs, "Y " is an asset description as a response may
\* spell it.
strip(s) == IF s = "Y " THEN "Y" ELSE s

lower(s) ==
    CASE s = "A" -> "a" [] s = "B" -> "b" [] s = "C" -> "c"
      [] s = "F" -> "f" [] s = "G" -> "g" [] s = "Z" -> "z"
      [] s = "Y" -> "y" [] OTHER -> s

normalize(s) == lower(strip(s))

\* Claim.normalized_citation (no citation here holds a section sign)
normalized_citation(claim) == normalize(claim.citation)

\* Evaluator._init_solver: a Solver over the statute sets with every
\* citation normalised.
normalized_exemption(e) ==
    [e EXCEPT !.citation = normalize(@),
              !.fallback_relationship = IF @ # NoCitation THEN normalize(@) ELSE @,
              !.mutual_exclusion = IF @ # NoCitation THEN normalize(@) ELSE @]

init_solver(statute_set_map) ==
    SolverInit([j \in DOMAIN statute_set_map |->
        [statute_set_map[j] EXCEPT !.statutes =
            [i \in DOMAIN statute_set_map[j].statutes |->
                normalized_exemption(statute_set_map[j].statutes[i])]]])

\* Evaluator.__init__
EvaluatorInit(statute_set_map) ==
    [statute_set_map |-> statute_set_map,
     solver |-> init_solver(statute_set_map),
     citation_map |->
        [j \in DOMAIN statute_set_map |-> exemption_citations(statute_set_map[j])],
     normalized_citation_map |->
        [j \in DOMAIN statute_set_map |->
            [i \in DOMAIN statute_set_map[j].statutes |->
                normalize(statute_set_map[j].statutes[i].citation)]]]

NoJurisdiction == "none"
NoMatch == "no match"

\* The order in which a dict built from the statute sets lists them
JurisdictionOrder == << "FEDERAL", "STATE" >>

\* The claims of a claim map, in the order of its entries
RECURSIVE all_claims(_)
all_claims(claim_map) ==
    IF claim_map = << >> THEN << >>
    ELSE Head(claim_map).claims \o all_claims(Tail(claim_map))

\* Evaluator._detect_jurisdiction: the jurisdiction of the first citation
\* that some jurisdiction lists.
detect_jurisdiction(ev, claim_map, normalized) ==
    LET citation_map == IF normalized THEN ev.normalized_citation_map ELSE ev.citation_map
        claims == all_claims(claim_map)
        citation(i) == IF normalized THEN normalized_citation(claims[i])
                       ELSE claims[i].citation
        known(i) == \E j \in DOMAIN citation_map : citation(i) \in Range(citation_map[j])
    IN IF \E i \in DOMAIN claims : known(i)
       THEN LET first == CHOOSE i \in DOMAIN claims :
                            known(i) /\ \A h \in 1..(i - 1) : ~known(h)
                k == CHOOSE n \in DOMAIN JurisdictionOrder :
                        /\ JurisdictionOrder[n] \in DOMAIN citation_map
                        /\ citation(first) \in Range(citation_map[JurisdictionOrder[n]])
                        /\ \A h \in 1..(n - 1) :
                              ~(/\ JurisdictionOrder[h] \in DOMAIN citation_map
                                /\ citation(first) \in Range(citation_map[JurisdictionOrder[h]]))
            IN JurisdictionOrder[k]
       ELSE NoJurisdiction

\* Evaluator._case_asset_map_for_jurisdiction: the assets in their order,
\* an asset whose description an earlier one has replacing it in place.
RECURSIVE put_asset(_, _)
put_asset(asset_map, asset) ==
    IF asset_map = << >> THEN << asset >>
    ELSE IF Head(asset_map).description = asset.description
    THEN << asset >> \o Tail(asset_map)
    ELSE << Head(asset_map) >> \o put_asset(Tail(asset_map), asset)

RECURSIVE case_asset_map_from(_, _, _, _)
case_asset_map_from(ev, assets, j, normalized) ==
    IF assets = << >> THEN << >>
    ELSE LET asset == assets[Len(assets)]
             citation_map == IF normalized THEN ev.normalized_citation_map
                             ELSE ev.citation_map
             description == IF normalized THEN normalize(asset.description)
                            ELSE asset.description
             applicable == IF normalized
                           THEN [i \in DOMAIN asset.applicable_exemptions |->
                                    normalize(asset.applicable_exemptions[i])]
                           ELSE asset.applicable_exemptions
         IN put_asset(
                case_asset_map_from(ev, SubSeq(assets, 1, Len(assets) - 1), j, normalized),
                Asset(description, asset.dollar_value,
                      SelectSeq(applicable, LAMBDA c : c \in Range(citation_map[j]))))

case_asset_map_for_jurisdiction(ev, case_, j, normalized) ==
    case_asset_map_from(ev, case_.assets, j, normalized)

\* fuzz.partial_ratio on the descriptions that occur: equal strings and a
\* description with a trailing "!" score 100, unrelated ones 0.
partial_ratio(s1, s2) ==
    IF s1 = s2 \/ << s1, s2 >> \in { << "x!", "x" >>, << "x", "x!" >> } THEN 100 ELSE 0

score_threshold == 90

\* Evaluator._find_matching_asset_description
find_matching_asset_description(asset_description, candidates) ==
    IF candidates = << >> THEN NoMatch
    ELSE IF asset_description \in Range(candidates) THEN asset_description
    ELSE LET best == CHOOSE i \in DOMAIN candidates :
                        /\ \A h \in DOMAIN candidates :
                              partial_ratio(asset_description, candidates[h])
                                  <= partial_ratio(asset_description, candidates[i])
                        /\ \A h \in 1..(i - 1) :
                              partial_ratio(asset_description, candidates[h])
                                  < partial_ratio(asset_description, candidates[i])
         IN IF partial_ratio(asset_description, candidates[best]) > score_threshold
            THEN candidates[best] ELSE NoMatch

\* Line 308: the candidate's keys normalised, a later entry replacing the
\* claims of an earlier one with the same key.
RECURSIVE put_claims(_, _)
put_claims(claim_map, entry) ==
    IF claim_map = << >> THEN << entry >>
    ELSE IF Head(claim_map).key = entry.key THEN << entry >> \o Tail(claim_map)
    ELSE << Head(claim_map) >> \o put_claims(Tail(claim_map), entry)

RECURSIVE normalized_prediction(_)
normalized_prediction(root) ==
    IF root = << >> THEN << >>
    ELSE put_claims(normalized_prediction(SubSeq(root, 1, Len(root) - 1)),
                    [key |-> normalize(root[Len(root)].key),
                     claims |-> root[Len(root)].claims])

\* Lines 327-332: one claim per normalised citation, the values summed.
RECURSIVE deduped_claims(_)
deduped_claims(claims) ==
    IF claims = << >> THEN << >>
    ELSE LET claim == claims[Len(claims)]
         IN merge_claim(deduped_claims(SubSeq(claims, 1, Len(claims) - 1)),
                        normalized_citation(claim), claim.claim_value)

\* The while loop of lines 342-344 (and 383-385).  An iteration that
\* returns 0 and leaves the solution as it was is followed by the same
\* iteration for ever: the loop does not end.
NonTermination == [raised |-> "NonTermination"]

RECURSIVE retry_item_claims(_, _, _, _)
RECURSIVE retried_item_claim(_, _, _, _, _)

retry_item_claims(sol, citation, claim_value, allocated_amount) ==
    IF claim_value - allocated_amount > 0 /\ item_claim_exists(sol, citation)
    THEN retried_item_claim(
            sol, citation, claim_value, allocated_amount,
            allocate_claim_amount(sol, citation, claim_value - allocated_amount))
    ELSE [amount |-> allocated_amount, solution |-> sol]

\* Line 344, with what its allocate_claim_amount call returned
retried_item_claim(sol, citation, claim_value, allocated_amount, allocation) ==
    IF allocation.amount = 0 /\ allocation.solution = sol
    THEN NonTermination
    ELSE retry_item_claims(allocation.solution, citation, claim_value,
                           allocated_amount + allocation.amount)

\* Lines 342-344 after the call of line 340 returned allocation
item_claims_after(allocation, citation, claim_value) ==
    retry_item_claims(allocation.solution, citation, claim_value, allocation.amount)

\* Lines 340-344: the first call and the loop
allocate_with_item_claims(sol, citation, claim_value) ==
    item_claims_after(allocate_claim_amount(sol, citation, claim_value),
                      citation, claim_value)

AssetIndex(asset_map, description) ==
    CHOOSE i \in DOMAIN asset_map : asset_map[i].description = description

\* Lines 347-348 without line 349: the solution stays as the allocation
\* left it.
rollback_without_checkpoint(replay, allocation) ==
    [replay EXCEPT !.invalid_claim_count = @ + 1, !.solution = allocation.solution]

\* Lines 347-349: the over-allocated claim is invalid and the solution is
\* the checkpoint again.
rollback(replay, allocation) ==
    [replay EXCEPT !.invalid_claim_count = @ + 1]

\* Lines 345-352, with what lines 340-344 allocated to the claim
allocated_claim(replay, k, claim, allocation) ==
    IF IsError(allocation) THEN allocation
    ELSE IF claim.claim_value > allocation.amount
    THEN rollback(replay, allocation)
    ELSE IF allocation.amount > 0
    THEN [replay EXCEPT
            !.assets[k].dollar_value = @ - allocation.amount,
            !.solution = claim_exemption(allocation.solution, claim.citation,
                            replay.assets[k].description, allocation.amount)]
    ELSE [replay EXCEPT !.solution = allocation.solution]

\* Lines 333-352 for one deduplicated claim of the asset at index k.  A
\* replay is [jurisdiction, solution, assets, invalid_claim_count,
\* total_claim_count].
replay_claim(replay, k, claim) ==
    IF \/ claim.citation \notin Range(replay.assets[k].applicable_exemptions)
       \/ claim.claim_value > replay.assets[k].dollar_value
    THEN [replay EXCEPT !.invalid_claim_count = @ + 1]
    ELSE allocated_claim(
            replay, k, claim,
            allocate_with_item_claims(replay.solution, claim.citation, claim.claim_value))

\* The loop of line 333 over the deduplicated claims; a loop that does not
\* end is the end of the replay.
replay_claims(replay, k, claims) ==
    FoldLeft(LAMBDA state, claim :
                IF IsError(state) THEN state ELSE replay_claim(state, k, claim),
             replay, claims)

\* Lines 321-352 for one entry of the candidate
replay_entry(replay, entry) ==
    LET counted == [replay EXCEPT !.total_claim_count = @ + Len(entry.claims)]
        matching_asset_description ==
            find_matching_asset_description(
                entry.key,
                [i \in DOMAIN replay.assets |-> replay.assets[i].description])
    IN IF matching_asset_description = NoMatch
       THEN [counted EXCEPT !.invalid_claim_count = @ + Len(entry.claims)]
       ELSE replay_claims(counted,
                          AssetIndex(replay.assets, matching_asset_description),
                          deduped_claims(entry.claims))

\* Lines 320-352: the loop over the candidate's entries
replay_prediction(replay, claim_map) ==
    FoldLeft(LAMBDA state, entry :
                IF IsError(state) THEN state ELSE replay_entry(state, entry),
             replay, claim_map)

\* Lines 354-356 (and 393-395): what is left of every asset is non-exempt.
RECURSIVE with_non_exempt_assets(_, _)
with_non_exempt_assets(sol, asset_map) ==
    IF asset_map = << >> THEN sol
    ELSE LET case_asset == Head(asset_map)
             rest == with_non_exempt_assets(sol, Tail(asset_map))
         IN IF case_asset.dollar_value > 0
            THEN [rest EXCEPT !.non_exempt_assets =
                    (case_asset.description :> case_asset.dollar_value) @@ @]
            ELSE rest

\* Lines 372-391: the replay of the target, whose sanity checks raise
\* AssertionError.
AssertionError(line) == [raised |-> "AssertionError", line |-> line]

\* Lines 387-391, with what lines 381-385 allocated to the claim
allocated_target_claim(replay, k, claim, allocation) ==
    IF IsError(allocation) THEN allocation
    ELSE IF allocation.amount # claim.claim_value THEN AssertionError(387)
    ELSE [replay EXCEPT
            !.assets[k].dollar_value = @ - allocation.amount,
            !.solution = claim_exemption(allocation.solution, normalized_citation(claim),
                            replay.assets[k].description, allocation.amount)]

\* Lines 377-391 for one claim of the target
target_claim(replay, k, claim) ==
    IF claim.citation \notin Range(replay.assets[k].applicable_exemptions)
    THEN AssertionError(378)
    ELSE allocated_target_claim(
            replay, k, claim,
            allocate_with_item_claims(replay.solution, normalized_citation(claim),
                                      claim.claim_value))

target_claims(replay, k, claims) ==
    FoldLeft(LAMBDA state, claim :
                IF IsError(state) THEN state ELSE target_claim(state, k, claim),
             replay, claims)

target_entry(replay, entry) ==
    IF \A i \in DOMAIN replay.assets : replay.assets[i].description # entry.asset
    THEN AssertionError(373)
    ELSE target_claims(replay, AssetIndex(replay.assets, entry.asset), entry.claims)

replay_target(replay, target) ==
    FoldLeft(LAMBDA state, entry :
                IF IsError(state) THEN state ELSE target_entry(state, entry),
             replay, target)

NewReplay(ev, case_, j, normalized) ==
    [jurisdiction |-> j,
     solution |-> init_solution(ev.solver, case_.married, j),
     assets |-> case_asset_map_for_jurisdiction(ev, case_, j, normalized),
     invalid_claim_count |-> 0,
     total_claim_count |-> 0]

\* Evaluator._absolute_relative_error with epsilon = 1, as a fraction
NaN == [nan |-> TRUE]
Fraction(n, d) == [num |-> n, den |-> d]
Abs(n) == IF n < 0 THEN 0 - n ELSE n

absolute_relative_error(prediction, target_) ==
    IF prediction = target_ THEN Fraction(0, 1)
    ELSE Fraction(Abs(prediction - (target_ + 1)), Abs(target_ + 1))

\* relative_error < 0.05
BelowTolerance(f) == 20 * f.num < f.den

\* A response that did not parse (prediction is None)
NoPrediction == [parsed |-> FALSE, root |-> << >>]

\* What the loop body of _evaluate_optimal_exemptions leaves of one sample
Scored(stage, outcome, relative_error, ratio, replay, optimal) ==
    [prediction |-> NoPrediction,
     stage |-> stage, outcome |-> outcome, raised |-> "none", line |-> 0,
     relative_error |-> relative_error, invalid_claim_ratio |-> ratio,
     predicted |-> replay, optimal |-> optimal]

Raised(error, replay, optimal) ==
    [prediction |-> NoPrediction, stage |-> "raised", outcome |-> "none",
     raised |-> IF error.raised = "AssertionError" THEN "AssertionError" ELSE error.raised,
     line |-> IF error.raised = "AssertionError" THEN error.line ELSE 0,
     relative_error |-> NaN, invalid_claim_ratio |-> NaN,
     predicted |-> replay, optimal |-> optimal]

NoReplay == [none |-> TRUE]

\* Lines 354-356 (and 393-395) on a replay
finished(replayed) ==
    [replayed EXCEPT !.solution = with_non_exempt_assets(replayed.solution, replayed.assets)]

\* Line 358
invalid_claim_ratio(replayed) ==
    IF replayed.total_claim_count > 0
    THEN Fraction(replayed.invalid_claim_count, replayed.total_claim_count)
    ELSE Fraction(0, 1)

\* Lines 397-407: the assertion and the scores
compare_totals(predicted, optimal, predicted_non_exempt_total, optimal_non_exempt_total) ==
    IF ~(optimal_non_exempt_total <= predicted_non_exempt_total)
    THEN Raised(AssertionError(399), predicted, optimal)
    ELSE Scored("compared",
                IF /\ BelowTolerance(absolute_relative_error(predicted_non_exempt_total,
                                                             optimal_non_exempt_total))
                   /\ invalid_claim_ratio(predicted).num = 0
                THEN "tp" ELSE "fp",
                absolute_relative_error(predicted_non_exempt_total,
                                        optimal_non_exempt_total),
                invalid_claim_ratio(predicted), predicted, optimal)

\* Lines 392-407, after the target was replayed
compare_replays(predicted, target_replayed) ==
    IF IsError(target_replayed) THEN Raised(target_replayed, predicted, NoReplay)
    ELSE compare_totals(
            predicted, finished(target_replayed),
            total_non_exempt_value(predicted.solution),
            total_non_exempt_value(finished(target_replayed).solution))

\* Lines 354-407, after the candidate was replayed
compare_solutions(ev, case_, target, allowable_jurisdictions, replayed) ==
    IF detect_jurisdiction(ev, target, FALSE) \notin Range(allowable_jurisdictions)
    THEN Raised(AssertionError(366), finished(replayed), NoReplay)
    ELSE compare_replays(
            finished(replayed),
            replay_target(
                NewReplay(ev, case_, detect_jurisdiction(ev, target, FALSE), FALSE),
                target))

\* Lines 315-407, for a candidate of an allowable jurisdiction
compare_prediction(ev, case_, target, allowable_jurisdictions, replayed) ==
    IF IsError(replayed) THEN Raised(replayed, NoReplay, NoReplay)
    ELSE compare_solutions(ev, case_, target, allowable_jurisdictions, replayed)

\* Lines 308-407 with line 311 rejecting only a candidate without a
\* jurisdiction
validate_prediction_of_any_jurisdiction(ev, case_, target, claim_map, predicted_jurisdiction, allowable_jurisdictions) ==
    IF predicted_jurisdiction = NoJurisdiction
    THEN Scored("rejected", "fn", NaN, Fraction(1, 1), NoReplay, NoReplay)
    ELSE compare_prediction(
            ev, case_, target, allowable_jurisdictions,
            replay_prediction(NewReplay(ev, case_, predicted_jurisdiction, TRUE),
                              claim_map))

\* Lines 308-407, with the jurisdiction line 309 detected
validate_prediction(ev, case_, target, claim_map, predicted_jurisdiction, allowable_jurisdictions) ==
    IF \/ predicted_jurisdiction = NoJurisdiction
       \/ predicted_jurisdiction \notin Range(allowable_jurisdictions)
    THEN Scored("rejected", "fn", NaN, Fraction(1, 1), NoReplay, NoReplay)
    ELSE compare_prediction(
            ev, case_, target, allowable_jurisdictions,
            replay_prediction(NewReplay(ev, case_, predicted_jurisdiction, TRUE),
                              claim_map))

\* The loop body of Evaluator._evaluate_optimal_exemptions (lines 294-407)
\* for one sample
evaluate_sample(ev, prediction, target, case_) ==
    IF ~prediction.parsed
    THEN Scored("invalid_format", "fn", NaN, Fraction(1, 1), NoReplay, NoReplay)
    ELSE IF prediction.root = << >> /\ target = << >>
    THEN Scored("no_claims", "tp", Fraction(0, 1), Fraction(0, 1), NoReplay, NoReplay)
    ELSE IF target = << >>
    THEN Scored("no_target", "fn", NaN, Fraction(1, 1), NoReplay, NoReplay)
    ELSE validate_prediction(
            ev, case_, target, normalized_prediction(prediction.root),
            detect_jurisdiction(ev, normalized_prediction(prediction.root), TRUE),
            allowable_exemption_jurisdictions(ev.statute_set_map[case_.state_jurisdiction]))

\* -------------------------------------------------------------- objects
\* The engine's dicts, the assets, the asset lists and the dicts and lists
\* of the solutions as Python objects.  A heap is a sequence of cells and a
\* reference is the index of a cell; a Solution is the references of its
\* attributes.  What mutates an object writes its cell, for every holder of
\* a reference to see; deepcopy makes new cells.
SolutionFields ==
    << "exemptions", "unclaimed_exemptions", "claimed_exemptions", "non_exempt_assets",
       "remaining_item_claim_counts", "item_claim_amounts",
       "remaining_fallback_relationships", "excluded_exemptions" >>

\* The dicts Solver.__init__ fills, one per table and jurisdiction
EngineTables ==
    << "exemption_map", "single_exemption_map", "married_exemption_map",
       "single_item_claim_count_map", "married_item_claim_count_map",
       "single_item_claim_amount_map", "married_item_claim_amount_map",
       "single_fallback_relationship_map", "married_fallback_relationship_map" >>

\* The cell of self.<table>[jurisdiction]
table_ref(table, j) ==
    2 * ((CHOOSE i \in DOMAIN EngineTables : EngineTables[i] = table) - 1)
      + (CHOOSE n \in DOMAIN JurisdictionOrder : JurisdictionOrder[n] = j)

\* The cells of the engine after Solver.__init__
engine_cells(slv) ==
    [r \in 1..(2 * Len(EngineTables)) |->
        slv[EngineTables[(r + 1) \div 2]][JurisdictionOrder[2 - (r % 2)]]]

\* The Solution whose attributes are the cells refs
solution_at(h, refs) == [f \in DOMAIN refs |-> h[refs[f]]]

\* The heap after a method left the Solution of refs as sol
written(h, refs, sol) ==
    [r \in DOMAIN h |->
        IF \E f \in DOMAIN refs : refs[f] = r
        THEN sol[CHOOSE f \in DOMAIN refs : refs[f] = r]
        ELSE h[r]]

\* deepcopy of a Solution: [heap, ref]
deepcopy_solution(h, refs) ==
    [heap |-> h \o [i \in DOMAIN SolutionFields |-> h[refs[SolutionFields[i]]]],
     ref |-> [f \in Range(SolutionFields) |->
                Len(h) + (CHOOSE i \in DOMAIN SolutionFields : SolutionFields[i] = f)]]

\* The Solution(...) of line 143: the engine's own dicts and three new objects
solution_of_tables(h, married, j) ==
    [heap |-> h \o << << >>, << >>, << >> >>,
     ref |-> [exemptions |-> table_ref("exemption_map", j),
              unclaimed_exemptions |->
                 table_ref(IF married THEN "married_exemption_map"
                           ELSE "single_exemption_map", j),
              claimed_exemptions |-> Len(h) + 1,
              non_exempt_assets |-> Len(h) + 2,
              remaining_item_claim_counts |->
                 table_ref(IF married THEN "married_item_claim_count_map"
                           ELSE "single_item_claim_count_map", j),
              item_claim_amounts |->
                 table_ref(IF married THEN "married_item_claim_amount_map"
                           ELSE "single_item_claim_amount_map", j),
              remaining_fallback_relationships |->
                 table_ref(IF married THEN "married_fallback_relationship_map"
                           ELSE "single_fallback_relationship_map", j),
              excluded_exemptions |-> Len(h) + 3]]

\* Line 143 without deepcopy: init_solution returns that Solution itself
init_solution_sharing(h, married, j) == solution_of_tables(h, married, j)

\* Solver.init_solution on the heap: deepcopy returns a copy of that Solution
init_solution_object(h, married, j) ==
    deepcopy_solution(solution_of_tables(h, married, j).heap,
                      solution_of_tables(h, married, j).ref)

\* Solution.allocate_claim_amount on the heap: [heap, amount]
allocate_on(h, refs, citation, claim_amount) ==
    [heap |-> written(h, refs,
                allocate_claim_amount(solution_at(h, refs), citation, claim_amount).solution),
     amount |-> allocate_claim_amount(solution_at(h, refs), citation, claim_amount).amount]

\* Solution.claim_exemption on the heap
claim_on(h, refs, citation, asset_description, claim_amount) ==
    written(h, refs,
            claim_exemption(solution_at(h, refs), citation, asset_description, claim_amount))

\* The assets of the list at A
assets_at(h, A) == [i \in DOMAIN h[A] |-> h[h[A][i]]]

\* Line 147 without deepcopy: the list of the case itself
case_assets_sharing(h, A) == [heap |-> h, ref |-> A]

\* deepcopy(case.assets) of line 147: new assets in a new list
copy_case_assets(h, A) ==
    [heap |-> h \o assets_at(h, A) \o << [i \in DOMAIN h[A] |-> Len(h) + i] >>,
     ref |-> Len(h) + Len(h[A]) + 1]

\* Lines 149-150: applicable_exemptions of every asset of the list rebound
filtered_assets(h, A, jurisdiction_citations) ==
    [r \in DOMAIN h |->
        IF r \in Range(h[A])
        THEN [h[r] EXCEPT !.applicable_exemptions =
                SelectSeq(@, LAMBDA c : c \in jurisdiction_citations)]
        ELSE h[r]]

\* Line 152: sorted makes a new list of the same assets
sorted_assets(h, A) ==
    LET counts == {Len(h[h[A][i]].applicable_exemptions) : i \in DOMAIN h[A]}
        RECURSIVE From(_)
        From(n) ==
            IF \A c \in counts : c < n THEN << >>
            ELSE SelectSeq(h[A], LAMBDA r : Len(h[r].applicable_exemptions) = n)
                    \o From(n + 1)
    IN [heap |-> Append(h, From(0)), ref |-> Len(h) + 1]

\* assets[1:]: a new list of the same assets
tail_list(h, A) == [heap |-> Append(h, Tail(h[A])), ref |-> Len(h) + 1]

\* Lines 178-179 and 193-194: assets[:] with a deepcopy of its first asset
updated_assets_object(h, A) ==
    [heap |-> h \o << h[h[A][1]], << Len(h) + 1 >> \o Tail(h[A]) >>,
     ref |-> Len(h) + 2]

\* deepcopy(solution) of lines 161, 171 and 196 replaced by solution itself
fork_solution_sharing(h, refs) == [heap |-> h, ref |-> refs]

\* deepcopy(solution) of lines 161, 171 and 196
fork_solution(h, refs) == deepcopy_solution(h, refs)

\* min(new_solution, optimal) on references, optimal possibly None
keep_best_object(h, new_ref, optimal_ref) ==
    IF optimal_ref = NoSolution THEN new_ref
    ELSE IF total_non_exempt_value(solution_at(h, optimal_ref))
                < total_non_exempt_value(solution_at(h, new_ref))
    THEN optimal_ref ELSE new_ref

\* What a call of the search is passed: its list, the assets of the list,
\* its solution and the incumbent
frame_cells(h, A, S, O) ==
    {A} \cup Range(h[A]) \cup Range(S) \cup (IF O = NoSolution THEN {} ELSE Range(O))

\* A call's result [heap, ref, kept]: kept says that here and in the calls
\* below every object a call was passed is, at its return, as it was passed.
framed(h, cells, out) ==
    [out EXCEPT !.kept = @ /\ \A r \in cells : out.heap[r] = h[r]]

RECURSIVE search_objects(_, _, _, _)
RECURSIVE citation_loop_objects(_, _, _, _, _, _)

\* Line 190 and the next iteration, with what the branch returned
citation_next(A, S, new_optimal, i, kept, out) ==
    IF IsError(out.ref) THEN [out EXCEPT !.kept = @ /\ kept]
    ELSE citation_loop_objects(out.heap, A, S,
                               keep_best_object(out.heap, out.ref, new_optimal),
                               i + 1, kept /\ out.kept)

\* The for loop of lines 170-190 on the heap, from the i-th citation on
citation_loop_objects(h, A, S, new_optimal, i, kept) ==
    IF i > Len(h[h[A][1]].applicable_exemptions)
    THEN [heap |-> h, ref |-> new_optimal, kept |-> kept]
    ELSE
    LET asset == h[h[A][1]]
        citation == asset.applicable_exemptions[i]
        copied == fork_solution(h, S)
        allocation == allocate_on(copied.heap, copied.ref, citation, asset.dollar_value)
        claimed == IF allocation.amount > 0
                   THEN claim_on(allocation.heap, copied.ref, citation,
                                 asset.description, allocation.amount)
                   ELSE allocation.heap
        sliced == tail_list(claimed, A)
        updated == updated_assets_object(claimed, A)
        reduced == [updated.heap EXCEPT ![updated.heap[updated.ref][1]].dollar_value =
                        @ - allocation.amount]
        removed == [reduced EXCEPT ![updated.heap[updated.ref][1]].applicable_exemptions =
                        RemoveCitation(@, citation)]
    IN citation_next(
          A, S, new_optimal, i, kept,
          IF allocation.amount = asset.dollar_value
          THEN search_objects(sliced.heap, sliced.ref, copied.ref, new_optimal)
          ELSE IF item_claim_exists(solution_at(claimed, copied.ref), citation)
          THEN IF RepeatsCaller(assets_at(reduced, updated.ref),
                                solution_at(reduced, copied.ref),
                                assets_at(h, A), solution_at(h, S))
               THEN [heap |-> reduced, ref |-> RecursionError, kept |-> TRUE]
               ELSE search_objects(reduced, updated.ref, copied.ref, new_optimal)
          ELSE search_objects(removed, updated.ref, copied.ref, new_optimal))

\* Line 198, with what the call of line 197 returned
unclaimed_result(new_optimal, kept, out) ==
    IF IsError(out.ref) THEN [out EXCEPT !.kept = @ /\ kept]
    ELSE [heap |-> out.heap,
          ref |-> keep_best_object(out.heap, out.ref, new_optimal),
          kept |-> kept /\ out.kept]

\* Lines 192-199, after the loop returned looped
unclaimed_branch(A, S, looped) ==
    IF IsError(looped.ref) THEN looped
    ELSE
    LET updated == updated_assets_object(looped.heap, A)
        emptied == [updated.heap EXCEPT
                        ![updated.heap[updated.ref][1]].applicable_exemptions = << >>]
        copied == fork_solution(emptied, S)
    IN unclaimed_result(looped.ref, looped.kept,
                        search_objects(copied.heap, updated.ref, copied.ref, looped.ref))

\* Lines 160-166, with the deepcopy of line 161
non_exempt_branch(copied, A, O, asset) ==
    LET h == written(copied.heap, copied.ref,
                     [solution_at(copied.heap, copied.ref) EXCEPT !.non_exempt_assets =
                        (asset.description :> asset.dollar_value) @@ @])
        sliced == tail_list(h, A)
    IN IF O # NoSolution /\ Prune(solution_at(h, copied.ref), solution_at(h, O))
       THEN [heap |-> h, ref |-> O, kept |-> TRUE]
       ELSE search_objects(sliced.heap, sliced.ref, copied.ref, O)

\* The body of Solver.recursive_optimal_exemption_search on the heap
search_frame(h, A, S, O) ==
    IF h[A] = << >>
    THEN [heap |-> h, ref |-> keep_best_object(h, S, O), kept |-> TRUE]
    ELSE IF h[h[A][1]].applicable_exemptions = << >>
    THEN non_exempt_branch(fork_solution(h, S), A, O, h[h[A][1]])
    ELSE unclaimed_branch(A, S, citation_loop_objects(h, A, S, O, 1, TRUE))

\* Solver.recursive_optimal_exemption_search on the heap: [heap, ref, kept]
search_objects(h, A, S, O) == framed(h, frame_cells(h, A, S, O), search_frame(h, A, S, O))

\* Lines 147-153 on the heap, with the Solution of line 146
solve_with(made, slv, A, j) ==
    LET copied == copy_case_assets(made.heap, A)
        filtered == filtered_assets(copied.heap, copied.ref,
                                    citations_for_jurisdictions(slv, j))
        sorted == sorted_assets(filtered, copied.ref)
    IN search_objects(sorted.heap, sorted.ref, made.ref, NoSolution)

\* Solver.solve_case_for_jurisdiction on the heap, for the case whose asset
\* list is at A
solve_case_objects(h, slv, A, married, j) ==
    solve_with(init_solution_object(h, married, j), slv, A, j)

\* ---------------------------------------------------------------- state
VARIABLES
    solver,        \* the Solver: its precomputed tables
    case,          \* the Case: assets, has_married_couple, state_jurisdiction
    jurisdiction,  \* the jurisdiction of the solution at hand
    solution,      \* the Solution the allocation primitives act on
    last,          \* the last primitive call: arguments, result, state before
    hist,          \* what the calls made so far returned, per citation
    pc,            \* position of the solve, or of the scoring
    result,        \* what solve_case_for_jurisdiction returned
    evaluator,     \* the Evaluator: its solver and citation maps
    dataset,       \* the sample of the case: its target
    score,         \* what _evaluate_optimal_exemptions made of the sample
    heap           \* the objects the engine, the case and the solutions are made of

vars == << solver, case, jurisdiction, solution, last, hist, pc, result,
           evaluator, dataset, score, heap >>

AssetDescriptions == << "x", "y", "z", "w", "v" >>

\* applicable_exemptions lists, across both jurisdictions (asset.py)
ApplicableLists ==
    { << "A", "F" >>, << "A", "B", "G" >>, << "C", "A" >>, << "B", "C", "G", "F" >> }

Citations(j) == DOMAIN solver.exemption_map[j]

NoCall == [op |-> "none"]
NoDataset == [none |-> TRUE]
NoScore == [none |-> TRUE]

\* ------------------------------------------------- Spec: the primitives
Amounts == { 0 - NegAmount } \cup (0..MaxAmount)

Init ==
    /\ \E k \in DOMAIN Catalogs : solver = SolverInit(Catalogs[k])
    /\ \E m \in BOOLEAN :
         case = [assets |-> << >>, married |-> m, state_jurisdiction |-> "STATE"]
    /\ jurisdiction \in Jurisdictions
    /\ solution = init_solution(solver, case.married, jurisdiction)
    /\ last = NoCall
    /\ hist = [calls |-> 0,
               returned |-> [c \in Citations(jurisdiction) |-> 0],
               positive |-> [c \in Citations(jurisdiction) |-> 0],
               granted |-> [c \in Citations(jurisdiction) |-> 0],
               open |-> [c \in Citations(jurisdiction) |-> 0],
               claimed |-> {}]
    /\ pc = "primitives"
    /\ result = NoSolution
    /\ evaluator = EvaluatorInit(solver.statute_set_map)
    /\ dataset = NoDataset
    /\ score = NoScore
    /\ heap = << >>

\* one call of Solution.allocate_claim_amount
AllocateClaimAmount(citation, claim_amount) ==
    /\ pc = "primitives"
    /\ hist.calls < MaxCalls
    /\ LET allocation == allocate_claim_amount(solution, citation, claim_amount)
       IN /\ solution' = allocation.solution
          /\ last' = [op |-> "allocate", citation |-> citation, request |-> claim_amount,
                      amount |-> allocation.amount, before |-> solution]
          /\ hist' = [hist EXCEPT
                        !.calls = @ + 1,
                        !.returned[citation] = @ + allocation.amount,
                        !.positive[citation] = @ + (IF allocation.amount > 0 THEN 1 ELSE 0),
                        !.granted[citation] =
                            @ + (IF allocation.amount > 0 THEN allocation.amount ELSE 0),
                        !.open[citation] =
                            @ + (IF citation \in Range(solution.excluded_exemptions)
                                 THEN 0 ELSE 1)]
    /\ UNCHANGED << heap, solver, case, jurisdiction, pc, result, evaluator, dataset, score >>

\* one call of Solution.claim_exemption, with the amount the preceding
\* allocate_claim_amount call returned (callers claim positive amounts only)
ClaimExemption(asset_description) ==
    /\ pc = "primitives"
    /\ last.op = "allocate"
    /\ last.amount > 0
    /\ solution' = claim_exemption(solution, last.citation, asset_description, last.amount)
    /\ last' = [op |-> "claim", citation |-> last.citation, request |-> last.amount,
                amount |-> last.amount, before |-> solution]
    /\ hist' = [hist EXCEPT !.claimed = @ \cup {last.citation}]
    /\ UNCHANGED << heap, solver, case, jurisdiction, pc, result, evaluator, dataset, score >>

Next ==
    \/ \E c \in Citations(jurisdiction), a \in Amounts : AllocateClaimAmount(c, a)
    \/ \E i \in 1..2 : ClaimExemption(AssetDescriptions[i])

Spec == Init /\ [][Next]_vars

\* ------------------------------------------------ SpecSolve: the search
Values == 1..MaxValue

AssetsOfLength(n) ==
    { [i \in 1..n |-> Asset(AssetDescriptions[i], f[i][1], f[i][2])] :
        f \in [1..n -> Values \X ApplicableLists] }

InitSolve ==
    /\ \E k \in DOMAIN Catalogs : solver = SolverInit(Catalogs[k])
    /\ \E m \in BOOLEAN, n \in 1..MaxAssets :
         \E assets \in AssetsOfLength(n) :
            case = [assets |-> assets, married |-> m, state_jurisdiction |-> "STATE"]
    /\ jurisdiction \in Jurisdictions
    /\ solution = init_solution(solver, case.married, jurisdiction)
    /\ last = NoCall
    /\ hist = [calls |-> 0]
    /\ pc = "ready"
    /\ result = NoSolution
    /\ evaluator = EvaluatorInit(solver.statute_set_map)
    /\ dataset = NoDataset
    /\ score = NoScore
    /\ heap = << >>

SolveCaseForJurisdiction ==
    /\ pc = "ready"
    /\ result' = solve_case_for_jurisdiction(solver, case, jurisdiction)
    /\ pc' = "solved"
    /\ UNCHANGED << heap, solver, case, jurisdiction, solution, last, hist,
                    evaluator, dataset, score >>

NextSolve == SolveCaseForJurisdiction

SpecSolve == InitSolve /\ [][NextSolve]_vars

\* ----------------------------------------------- SpecScore: the scoring
\* The scored cases are those of a single debtor: no asset is worth more
\* than MaxScoreValue, which every married limit covers.
ScoreMarried == { FALSE }

ScoreLists == { << "A", "F" >>, << "C", "A" >>, << "B", "C", "G", "F" >> }

ScoreAssetsOfLength(n) ==
    { [i \in 1..n |-> Asset(AssetDescriptions[i], f[i][1], f[i][2])] :
        f \in [1..n -> (1..MaxScoreValue) \X ScoreLists] }

\* What a response may hold: the keys spell asset x nearly, asset y before
\* normalisation, and no asset; Z is no citation of any catalog.
PredictionKeys == { "x!", "Y ", "q" }
PredictionCitations == { "A", "B", "C", "F", "G", "Z" }
ClaimValues == { 0 - NegClaimValue } \cup (1..MaxClaimValue)
PredictionClaims ==
    { [citation |-> c, claim_value |-> v] : c \in PredictionCitations, v \in ClaimValues }

ClaimLists(n) == [1..n -> PredictionClaims]

\* The claim maps of at most n entries and at most budget claims, every
\* entry with a key of its own and at least one claim
RECURSIVE PredictionRoots(_, _, _)
PredictionRoots(n, budget, used) ==
    { << >> } \cup
    (IF n = 0 \/ budget = 0 THEN {}
     ELSE UNION { UNION { { << [key |-> k, claims |-> cl] >> \o rest :
                                rest \in PredictionRoots(n - 1, budget - len, used \cup {k}) } :
                            cl \in ClaimLists(len) } :
                  k \in PredictionKeys \ used, len \in 1..budget })

\* The responses: one that did not parse, and the claim maps of at most n
\* entries and at most budget claims
Predictions(n, budget) ==
    { NoPrediction } \cup
    { [parsed |-> TRUE, root |-> r] : r \in PredictionRoots(n, budget, {}) }

InitScore ==
    /\ \E k \in DOMAIN Catalogs : solver = SolverInit(Catalogs[k])
    /\ \E m \in ScoreMarried, n \in 1..MaxScoreAssets :
         \E assets \in ScoreAssetsOfLength(n) :
            case = [assets |-> assets, married |-> m, state_jurisdiction |-> "STATE"]
    /\ evaluator = EvaluatorInit(solver.statute_set_map)
    /\ dataset = NoDataset
    /\ jurisdiction = NoJurisdiction
    /\ solution = NoSolution
    /\ last = NoCall
    /\ hist = [calls |-> 0]
    /\ pc = "case"
    /\ result = NoSolution
    /\ score = NoScore
    /\ heap = << >>

\* The task generator solves the case for the jurisdictions allowable in
\* its state (task_generator.py: generate_task, solve_case); a search that
\* raises leaves no sample.
SolveOptimalExemptions ==
    /\ pc = "case"
    /\ dataset' = solve_optimal_exemptions(
                    solver, case,
                    allowable_exemption_jurisdictions(
                        solver.statute_set_map[case.state_jurisdiction]))
    /\ pc' = IF dataset'.raised = "none" THEN "sample" ELSE "raised"
    /\ UNCHANGED << heap, solver, case, jurisdiction, solution, last, hist, result,
                    evaluator, score >>

\* The response that repeats the target: the same asset descriptions,
\* citations and claim values, in the same order
target_as_prediction(target) ==
    [parsed |-> TRUE,
     root |-> [i \in DOMAIN target |->
                [key |-> target[i].asset, claims |-> target[i].claims]]]

\* _evaluate_optimal_exemptions on the sample, for some prediction
EvaluateOptimalExemptions ==
    /\ pc = "sample"
    /\ \E prediction \in Predictions(MaxEntries, MaxClaims) :
         score' = [evaluate_sample(evaluator, prediction, dataset.target, case)
                     EXCEPT !.prediction = prediction]
    /\ pc' = "scored"
    /\ UNCHANGED << heap, solver, case, jurisdiction, solution, last, hist, result,
                    evaluator, dataset >>

NextScore == SolveOptimalExemptions \/ EvaluateOptimalExemptions

SpecScore == InitScore /\ [][NextScore]_vars

\* ------------------------------- SpecTarget: the target scored as candidate
TargetCatalogs == << CatalogLimits, CatalogFallback, CatalogChain >>

TargetLists == { << "C" >>, << "C", "B" >>, << "A", "F" >> }

TargetAssetsOfLength(n) ==
    { [i \in 1..n |-> Asset(AssetDescriptions[i], f[i][1], f[i][2])] :
        f \in [1..n -> (1..MaxTargetValue) \X TargetLists] }

InitTarget ==
    /\ \E k \in DOMAIN TargetCatalogs : solver = SolverInit(TargetCatalogs[k])
    /\ \E m \in BOOLEAN, n \in 1..MaxTargetAssets :
         \E assets \in TargetAssetsOfLength(n) :
            case = [assets |-> assets, married |-> m, state_jurisdiction |-> "STATE"]
    /\ evaluator = EvaluatorInit(solver.statute_set_map)
    /\ dataset = NoDataset
    /\ jurisdiction = NoJurisdiction
    /\ solution = NoSolution
    /\ last = NoCall
    /\ hist = [calls |-> 0]
    /\ pc = "case"
    /\ result = NoSolution
    /\ score = NoScore
    /\ heap = << >>

\* _evaluate_optimal_exemptions on the sample, the prediction being the
\* target itself
EvaluateTarget ==
    /\ pc = "sample"
    /\ score' = [evaluate_sample(evaluator, target_as_prediction(dataset.target),
                                 dataset.target, case)
                   EXCEPT !.prediction = target_as_prediction(dataset.target)]
    /\ pc' = "scored"
    /\ UNCHANGED << heap, solver, case, jurisdiction, solution, last, hist, result,
                    evaluator, dataset >>

NextTarget == SolveOptimalExemptions \/ EvaluateTarget

SpecTarget == InitTarget /\ [][NextTarget]_vars

\* ------------------------ SpecValidate: the validation of a candidate
\* The case has one asset; with only a federal exemption applicable, a
\* state that has opted out leaves it no claim and the target is empty.
ValidateLists == { << "A", "F" >>, << "F" >> }

\* Two of the keys differ by case and white space only.
ValidateKeys == { "x", "Y ", "y" }

ValidateClaimLists(n) ==
    [1..n -> { [citation |-> c, claim_value |-> v] :
                c \in { "A", "F", "Z" }, v \in 1..MaxValidateValue }]

\* The claim maps of at most n entries and at most budget claims, every
\* entry with a key of its own and at least one claim
RECURSIVE ValidateRoots(_, _, _)
ValidateRoots(n, budget, used) ==
    { << >> } \cup
    (IF n = 0 \/ budget = 0 THEN {}
     ELSE UNION { UNION { { << [key |-> k, claims |-> cl] >> \o rest :
                                rest \in ValidateRoots(n - 1, budget - len, used \cup {k}) } :
                            cl \in ValidateClaimLists(len) } :
                  k \in ValidateKeys \ used, len \in 1..budget })

InitValidate ==
    /\ \E k \in DOMAIN Catalogs : solver = SolverInit(Catalogs[k])
    /\ \E v \in 1..MaxValidateValue, ae \in ValidateLists :
         case = [assets |-> << Asset("x", v, ae) >>, married |-> FALSE,
                 state_jurisdiction |-> "STATE"]
    /\ evaluator = EvaluatorInit(solver.statute_set_map)
    /\ dataset = NoDataset
    /\ jurisdiction = NoJurisdiction
    /\ solution = NoSolution
    /\ last = NoCall
    /\ hist = [calls |-> 0]
    /\ pc = "case"
    /\ result = NoSolution
    /\ score = NoScore
    /\ heap = << >>

\* _evaluate_optimal_exemptions on the sample, for a response that did
\* not parse or for some claim map
EvaluateCandidate ==
    /\ pc = "sample"
    /\ \E prediction \in
            { NoPrediction } \cup
            { [parsed |-> TRUE, root |-> r] :
                r \in ValidateRoots(MaxValidateEntries, MaxValidateClaims, {}) } :
         score' = [evaluate_sample(evaluator, prediction, dataset.target, case)
                     EXCEPT !.prediction = prediction]
    /\ pc' = "scored"
    /\ UNCHANGED << heap, solver, case, jurisdiction, solution, last, hist, result,
                    evaluator, dataset >>

NextValidate == SolveOptimalExemptions \/ EvaluateCandidate

SpecValidate == InitValidate /\ [][NextValidate]_vars

\* ------------------- SpecReplay: the candidate replayed claim by claim
ReplayAssetsOfLength(n) ==
    { [i \in 1..n |-> Asset(AssetDescriptions[i], f[i][1], f[i][2])] :
        f \in [1..n -> (1..MaxReplayValue) \X ScoreLists] }

InitReplay ==
    /\ \E k \in DOMAIN Catalogs : solver = SolverInit(Catalogs[k])
    /\ \E m \in ScoreMarried, n \in 1..MaxReplayAssets :
         \E assets \in ReplayAssetsOfLength(n) :
            case = [assets |-> assets, married |-> m, state_jurisdiction |-> "STATE"]
    /\ evaluator = EvaluatorInit(solver.statute_set_map)
    /\ dataset = NoDataset
    /\ jurisdiction = NoJurisdiction
    /\ solution = NoSolution
    /\ last = NoCall
    /\ hist = [calls |-> 0]
    /\ pc = "case"
    /\ result = NoSolution
    /\ score = NoScore
    /\ heap = << >>

\* The keys of a candidate's entries: asset x as it is and nearly, asset y
\* before normalisation, and no asset
ReplayKeys == PredictionKeys \cup { "x" }

\* The claims of one entry: one claim, citing an exemption of the detected
\* jurisdiction or no exemption of any catalog
ReplayClaimLists(j) ==
    { << [citation |-> c, claim_value |-> v] >> :
        c \in Range(evaluator.citation_map[j]) \cup { "Z" }, v \in ClaimValues }

\* Lines 316-319: the replay of a candidate of an allowable jurisdiction
\* begins, for a sample whose target holds claims (line 302).
BeginReplay(j) ==
    /\ pc = "sample"
    /\ dataset.target # << >>
    /\ j \in Range(allowable_exemption_jurisdictions(
                        solver.statute_set_map[case.state_jurisdiction]))
    /\ jurisdiction' = j
    /\ score' = [stage |-> "replaying", predicted |-> NewReplay(evaluator, case, j, TRUE)]
    /\ hist' = [calls |-> 0, keys |-> {}, detected |-> FALSE, k |-> 0, claims |-> << >>]
    /\ pc' = "replay"
    /\ UNCHANGED << heap, solver, case, solution, last, result, evaluator, dataset >>

\* Lines 320-332 for the candidate's next entry: its claims are counted, its
\* key is matched to an asset and its claims are deduplicated.  The first
\* citation of the candidate that a catalog lists is of the jurisdiction
\* line 309 detected.
ReplayEntry(key, claims) ==
    /\ pc = "replay"
    /\ hist.claims = << >>
    /\ hist.calls + Len(claims) <= MaxReplayClaims
    /\ normalize(key) \notin hist.keys
    /\ hist.detected \/
           detect_jurisdiction(evaluator, << [key |-> normalize(key), claims |-> claims] >>, TRUE)
               \in { NoJurisdiction, jurisdiction }
    /\ LET matching_asset_description ==
               find_matching_asset_description(
                   normalize(key),
                   [i \in DOMAIN score.predicted.assets |->
                       score.predicted.assets[i].description])
           counted == [score.predicted EXCEPT !.total_claim_count = @ + Len(claims)]
       IN IF matching_asset_description = NoMatch
          THEN /\ score' = [score EXCEPT !.predicted =
                                [counted EXCEPT !.invalid_claim_count = @ + Len(claims)]]
               /\ hist' = [hist EXCEPT
                             !.calls = @ + Len(claims),
                             !.keys = @ \cup { normalize(key) },
                             !.detected = @ \/ detect_jurisdiction(evaluator,
                                 << [key |-> normalize(key), claims |-> claims] >>, TRUE)
                                     # NoJurisdiction]
          ELSE /\ score' = [score EXCEPT !.predicted = counted]
               /\ hist' = [hist EXCEPT
                             !.calls = @ + Len(claims),
                             !.keys = @ \cup { normalize(key) },
                             !.detected = @ \/ detect_jurisdiction(evaluator,
                                 << [key |-> normalize(key), claims |-> claims] >>, TRUE)
                                     # NoJurisdiction,
                             !.k = AssetIndex(score.predicted.assets,
                                              matching_asset_description),
                             !.claims = deduped_claims(claims)]
    /\ last' = NoCall
    /\ UNCHANGED << heap, solver, case, jurisdiction, solution, pc, result, evaluator, dataset >>

\* Lines 333-352 for the next deduplicated claim of the entry
ReplayClaim ==
    /\ pc = "replay"
    /\ hist.claims # << >>
    /\ LET claim == Head(hist.claims)
           before == score.predicted
           checked == /\ claim.citation \in Range(before.assets[hist.k].applicable_exemptions)
                      /\ ~(claim.claim_value > before.assets[hist.k].dollar_value)
       IN /\ last' = [op |-> "replay_claim", k |-> hist.k, claim |-> claim,
                      before |-> before, checked |-> checked,
                      allocation |->
                         IF checked
                         THEN allocate_with_item_claims(before.solution, claim.citation,
                                                        claim.claim_value)
                         ELSE NoCall]
          /\ IF IsError(replay_claim(before, hist.k, claim))
             THEN /\ pc' = "looping"
                  /\ score' = score
             ELSE /\ pc' = pc
                  /\ score' = [score EXCEPT !.predicted = replay_claim(before, hist.k, claim)]
    /\ hist' = [hist EXCEPT !.claims = Tail(@)]
    /\ UNCHANGED << heap, solver, case, jurisdiction, solution, result, evaluator, dataset >>

NextReplay ==
    \/ SolveOptimalExemptions
    \/ \E j \in Jurisdictions : BeginReplay(j)
    \/ /\ pc = "replay"
       /\ \E key \in ReplayKeys, claims \in ReplayClaimLists(jurisdiction) :
             ReplayEntry(key, claims)
    \/ ReplayClaim

SpecReplay == InitReplay /\ [][NextReplay]_vars

\* ------------- SpecExcluded: the primitives, fallback onto an excluded source
\* A catalog in which the source of a fallback relationship can be excluded
\* while the exemption that falls back on it is still open: A falls back on
\* B and C excludes B; F falls back on G and excludes G.
CatalogExcluded ==
    [STATE |-> StatuteSet("STATE", FALSE,
        << Exemption("A", 2, 4, None, None, None, "B", 1, 2, NoCitation),
           Plain("B", 3, 6),
           Exemption("C", 1, 2, None, None, None, NoCitation, None, None, "B") >>),
     FEDERAL |-> StatuteSet("FEDERAL", FALSE,
        << Exemption("F", 2, 4, None, None, None, "G", 2, 2, "G"),
           Plain("G", 2, 3) >>)]

InitExcluded ==
    /\ solver = SolverInit(CatalogExcluded)
    /\ \E m \in BOOLEAN :
         case = [assets |-> << >>, married |-> m, state_jurisdiction |-> "STATE"]
    /\ jurisdiction \in Jurisdictions
    /\ solution = init_solution(solver, case.married, jurisdiction)
    /\ last = NoCall
    /\ hist = [calls |-> 0,
               returned |-> [c \in Citations(jurisdiction) |-> 0],
               positive |-> [c \in Citations(jurisdiction) |-> 0],
               granted |-> [c \in Citations(jurisdiction) |-> 0],
               open |-> [c \in Citations(jurisdiction) |-> 0],
               claimed |-> {}]
    /\ pc = "primitives"
    /\ result = NoSolution
    /\ evaluator = EvaluatorInit(solver.statute_set_map)
    /\ dataset = NoDataset
    /\ score = NoScore
    /\ heap = << >>

SpecExcluded == InitExcluded /\ [][Next]_vars

\* ------------------- SpecPrune: one call of the search, with and without prune
\* recursive_optimal_exemption_search called on a list of assets of the
\* jurisdiction in any order, on a fresh state or a state with one claim for
\* an asset w that is not of the list, and with no incumbent or an incumbent
\* of a given total.
PruneAssetsOfLength(n) ==
    { [i \in 1..n |-> Asset(AssetDescriptions[i], f[i][1], f[i][2])] :
        f \in [1..n -> (1..MaxPruneValue) \X ApplicableLists] }

\* The fresh state and the states after one allocation of 1 claimed for w
PruneStates(fresh) ==
    { fresh } \cup
    { claim_exemption(allocate_claim_amount(fresh, c, 1).solution, c, "w", 1) :
        c \in { d \in DOMAIN fresh.exemptions : allocate_claim_amount(fresh, d, 1).amount = 1 } }

\* No incumbent, or a state whose non-exempt total is t
Incumbents(fresh) ==
    { NoSolution } \cup
    { [fresh EXCEPT !.non_exempt_assets = ("w" :> t)] : t \in 0..MaxIncumbent }

InitPrune ==
    /\ \E k \in DOMAIN Catalogs : solver = SolverInit(Catalogs[k])
    /\ jurisdiction \in Jurisdictions
    /\ \E n \in 1..MaxPruneAssets :
         \E assets \in PruneAssetsOfLength(n) :
            case = [assets |-> FilterAssets(solver, assets, jurisdiction),
                    married |-> FALSE, state_jurisdiction |-> "STATE"]
    /\ solution \in PruneStates(init_solution(solver, case.married, jurisdiction))
    /\ last = NoCall
    /\ hist \in { [calls |-> 0, incumbent |-> optimal] :
                    optimal \in Incumbents(init_solution(solver, case.married, jurisdiction)) }
    /\ pc = "ready"
    /\ result = NoSolution
    /\ evaluator = EvaluatorInit(solver.statute_set_map)
    /\ dataset = NoDataset
    /\ score = NoScore
    /\ heap = << >>

\* one call of recursive_optimal_exemption_search, and the same call of the
\* search without lines 164-165
SearchWithAndWithoutPrune ==
    /\ pc = "ready"
    /\ result' = [pruned |-> recursive_optimal_exemption_search(
                                case.assets, solution, hist.incumbent),
                  unpruned |-> search_without_prune(case.assets, solution, hist.incumbent)]
    /\ pc' = "searched"
    /\ UNCHANGED << heap, solver, case, jurisdiction, solution, last, hist,
                    evaluator, dataset, score >>

NextPrune == SearchWithAndWithoutPrune

SpecPrune == InitPrune /\ [][NextPrune]_vars

\* --------------------------- SpecObjects: one engine, its states, its solves
\* One engine and one case as objects.  The steps are the calls a user of
\* the engine makes: init_solution, allocate_claim_amount and claim_exemption
\* on the state it returned (what the replay of a candidate does), and
\* solve_case_for_jurisdiction.
ObjectLists == { << "A", "F" >>, << "C", "A" >> }

ObjectAssetsOfLength(n) ==
    { [i \in 1..n |-> Asset(AssetDescriptions[i], f[i][1], f[i][2])] :
        f \in [1..n -> (1..MaxObjectValue) \X ObjectLists] }

\* The cell of case.assets, after the cells of the engine and of the assets
CaseAssetsRef == 2 * Len(EngineTables) + Len(case.assets) + 1

InitObjects ==
    /\ \E k \in DOMAIN Catalogs : solver = SolverInit(Catalogs[k])
    /\ \E n \in 1..MaxObjectAssets :
         \E assets \in ObjectAssetsOfLength(n) :
            case = [assets |-> assets, married |-> FALSE, state_jurisdiction |-> "STATE"]
    /\ jurisdiction = NoJurisdiction
    /\ solution = NoSolution
    /\ last = NoCall
    /\ hist = [calls |-> 0,
               first |-> [j \in Jurisdictions |-> NoSolution],
               solves |-> [j \in Jurisdictions |-> 0],
               other |-> NoCall]
    /\ pc = "objects"
    /\ result = NoSolution
    /\ evaluator = EvaluatorInit(solver.statute_set_map)
    /\ dataset = NoDataset
    /\ score = NoScore
    /\ heap = engine_cells(solver) \o case.assets
                \o << [i \in DOMAIN case.assets |-> 2 * Len(EngineTables) + i] >>

\* one call of Solver.init_solution; the state of the call before is kept
InitSolutionObject(j) ==
    /\ pc = "objects"
    /\ hist.calls < MaxObjectCalls
    /\ \E made \in { init_solution_object(heap, case.married, j) } :
          /\ heap' = made.heap
          /\ solution' = made.ref
          /\ last' = [op |-> "init_solution", fresh |-> solution_at(made.heap, made.ref)]
    /\ jurisdiction' = j
    /\ hist' = [hist EXCEPT
                  !.calls = @ + 1,
                  !.other = IF solution = NoSolution THEN @
                            ELSE [op |-> "state", ref |-> solution,
                                  value |-> solution_at(heap, solution)]]
    /\ UNCHANGED << solver, case, pc, result, evaluator, dataset, score >>

\* one call of allocate_claim_amount on the state of the last init_solution
AllocateOn(citation, claim_amount) ==
    /\ pc = "objects"
    /\ hist.calls < MaxObjectCalls
    /\ solution # NoSolution
    /\ \E allocation \in { allocate_on(heap, solution, citation, claim_amount) } :
          /\ heap' = allocation.heap
          /\ last' = [op |-> "allocate", citation |-> citation, amount |-> allocation.amount]
    /\ hist' = [hist EXCEPT !.calls = @ + 1]
    /\ UNCHANGED << solver, case, jurisdiction, solution, pc, result,
                    evaluator, dataset, score >>

\* one call of claim_exemption on that state, with the amount the preceding
\* allocate_claim_amount returned
ClaimOn(asset_description) ==
    /\ pc = "objects"
    /\ last.op = "allocate"
    /\ last.amount > 0
    /\ heap' = claim_on(heap, solution, last.citation, asset_description, last.amount)
    /\ last' = [op |-> "claim", citation |-> last.citation, amount |-> last.amount]
    /\ UNCHANGED << solver, case, jurisdiction, solution, hist, pc, result,
                    evaluator, dataset, score >>

\* one call of Solver.solve_case_for_jurisdiction.  The caller reads the
\* state it returns and keeps the objects it had before the call.
SolveObjects(j) ==
    /\ pc = "objects"
    /\ hist.calls < MaxObjectCalls
    /\ \E out \in { solve_case_objects(heap, solver, CaseAssetsRef, case.married, j) } :
          /\ heap' = SubSeq(out.heap, 1, Len(heap))
          /\ result' = [value |-> IF IsError(out.ref) THEN out.ref
                                  ELSE solution_at(out.heap, out.ref),
                        kept |-> out.kept]
    /\ last' = [op |-> "solve", jurisdiction |-> j]
    /\ hist' = [hist EXCEPT
                  !.calls = @ + 1,
                  !.solves[j] = @ + 1,
                  !.first[j] = IF @ = NoSolution THEN result'.value ELSE @]
    /\ UNCHANGED << solver, case, jurisdiction, solution, pc, evaluator, dataset, score >>

NextObjects ==
    \/ \E j \in Jurisdictions : InitSolutionObject(j)
    \/ /\ solution # NoSolution
       /\ \E c \in Citations(jurisdiction), a \in 1..MaxObjectValue : AllocateOn(c, a)
    \/ ClaimOn("x")
    \/ \E j \in Jurisdictions : SolveObjects(j)

SpecObjects == InitObjects /\ [][NextObjects]_vars

\* =============================================================== claims
\* What the catalog says of an exemption for the case's marital status
\* (statute.py), read from the Exemption itself and not from the tables.
LimitOf(e) == IF case.married THEN e.married_limit ELSE e.single_limit
ItemClaimCountOf(e) ==
    IF case.married THEN e.married_item_claim_count ELSE e.single_item_claim_count
FallbackLimitOf(e) ==
    IF e.fallback_relationship = NoCitation THEN 0
    ELSE IF case.married THEN e.married_fallback_limit ELSE e.single_fallback_limit
ItemLimited(e) == ItemClaimCountOf(e) # None /\ ItemClaimCountOf(e) # 0
ExemptionOf(c) == solver.exemption_map[jurisdiction][c]

\* The fallback budget a state still holds for a citation (0 without a
\* fallback relationship)
FallbackBudget(sol, c) ==
    IF sol.remaining_fallback_relationships[c].from_citation = NoCitation THEN 0
    ELSE sol.remaining_fallback_relationships[c].balance

LastIsAllocate == pc = "primitives" /\ last.op = "allocate"

\* C5: one allocate_claim_amount(c, amount) call with amount >= 0 on a
\* limited citation returns at most c's balance plus c's fallback budget as
\* they were before the call, and a call for an excluded citation returns 0.
C5_AllocationWithinBalance ==
    LastIsAllocate =>
        LET c == last.citation
            before == last.before
        IN /\ c \in Range(before.excluded_exemptions) => last.amount = 0
           /\ (last.request >= 0 /\ before.unclaimed_exemptions[c] # None) =>
                last.amount <= before.unclaimed_exemptions[c] + FallbackBudget(before, c)

\* A call that was granted its balance and the whole fallback budget, less
\* than it asked for.
C5_Witness ==
    /\ LastIsAllocate
    /\ last.before.unclaimed_exemptions[last.citation] # None
    /\ FallbackBudget(last.before, last.citation) > 0
    /\ last.amount = last.before.unclaimed_exemptions[last.citation]
                        + FallbackBudget(last.before, last.citation)
    /\ last.amount < last.request

\* The dictionary lookups of allocate_claim_amount and _process_claim
\* (lines 38, 44, 46, 51, 53, 62) find their keys: no KeyError.
allocate_lookups_defined(sol, citation) ==
    /\ citation \in DOMAIN sol.remaining_item_claim_counts
    /\ citation \in DOMAIN sol.item_claim_amounts
    /\ citation \in DOMAIN sol.exemptions
    /\ citation \in DOMAIN sol.unclaimed_exemptions
    /\ citation \in DOMAIN sol.remaining_fallback_relationships
    /\ sol.remaining_fallback_relationships[citation].from_citation # NoCitation =>
          sol.remaining_fallback_relationships[citation].from_citation
              \in DOMAIN sol.unclaimed_exemptions

\* C13: in every state the allocation calls reach, allocate_claim_amount
\* finds every key it looks up for any citation of the jurisdiction, and
\* every call made with a requested amount >= 0 returned an amount from 0
\* to the request.
C13_ReturnWithinRequest ==
    pc = "primitives" =>
        /\ \A c \in Citations(jurisdiction) : allocate_lookups_defined(solution, c)
        /\ (last.op = "allocate" /\ last.request >= 0) =>
              /\ 0 <= last.amount
              /\ last.amount <= last.request

\* A call on a state earlier calls have drawn from, returning part of a
\* positive request: more than 0 and less than the request.
C13_Witness ==
    /\ LastIsAllocate
    /\ hist.calls > 1
    /\ last.request > 0
    /\ 0 < last.amount
    /\ last.amount < last.request

\* C6: the amounts allocate_claim_amount returned for a limited citation
\* sum to at most its limit plus its fallback limit for the marital status
\* of the case.
C6_CumulativeWithinLimits ==
    pc = "primitives" =>
        \A c \in Citations(jurisdiction) :
            LimitOf(ExemptionOf(c)) # None =>
                hist.returned[c] <= LimitOf(ExemptionOf(c)) + FallbackLimitOf(ExemptionOf(c))

\* A citation whose limit and fallback limit have both been handed out.
C6_Witness ==
    /\ pc = "primitives"
    /\ \E c \in Citations(jurisdiction) :
         /\ LimitOf(ExemptionOf(c)) # None
         /\ FallbackLimitOf(ExemptionOf(c)) > 0
         /\ hist.returned[c] = LimitOf(ExemptionOf(c)) + FallbackLimitOf(ExemptionOf(c))

\* C7: after claim_exemption was called for an exemption whose
\* mutual_exclusion is B, every allocate_claim_amount(B, x) returns 0.
C7_ExcludedNeverAllocated ==
    LastIsAllocate =>
        ((\E a \in hist.claimed : ExemptionOf(a).mutual_exclusion = last.citation)
            => last.amount = 0)

\* A positive request for B, which still has balance, made after the
\* exemption excluding B was claimed.
C7_Witness ==
    /\ LastIsAllocate
    /\ \E a \in hist.claimed : ExemptionOf(a).mutual_exclusion = last.citation
    /\ last.request > 0
    /\ last.before.unclaimed_exemptions[last.citation] > 0
    /\ hist.calls >= 2

\* The capped request r' of a call: the request capped by the per-item
\* amount limit / count of an item-limited exemption and by per_item_limit.
CappedRequest(e, request) ==
    LET byItem == IF ItemLimited(e)
                  THEN Min(LimitOf(e) \div ItemClaimCountOf(e), request) ELSE request
    IN IF e.per_item_limit = None THEN byItem ELSE Min(e.per_item_limit, byItem)

\* The call reaches the draw: the citation is not excluded and, when
\* item-limited, has a slot left.
ReachesDraw(before, c) ==
    /\ c \notin Range(before.excluded_exemptions)
    /\ before.remaining_item_claim_counts[c] # None =>
            before.remaining_item_claim_counts[c] >= 1

\* The example of the specification: limit(A) = 1000 with a fallback of 500
\* on B, whose balance is 1500.
ExampleFallbackSolution ==
    init_solution(
        SolverInit([STATE |-> StatuteSet("STATE", FALSE,
            << Exemption("A", 1000, 2000, None, None, None, "B", 500, 1000, NoCitation),
               Plain("B", 1500, 3000) >>)]),
        FALSE, "STATE")

C8_ShortfallDrawn(before, after, c, request, amount) ==
    LET e == before.exemptions[c]
        r == CappedRequest(e, request)
        b == before.unclaimed_exemptions[c]
        rel == before.remaining_fallback_relationships[c]
        f == rel.balance
        source == rel.from_citation
        sourceBalance == before.unclaimed_exemptions[source]
        d == IF sourceBalance = None THEN Min(r - b, f)
             ELSE Min(Min(r - b, f), sourceBalance)
    IN (ReachesDraw(before, c) /\ b # None /\ b < r /\ source # NoCitation) =>
        /\ amount = b + d
        /\ after.unclaimed_exemptions[c] = 0
        /\ after.remaining_fallback_relationships[c].balance = f - d
        /\ after.unclaimed_exemptions[source] =
                IF sourceBalance = None THEN None ELSE sourceBalance - d

\* C8: a call whose capped request r' exceeds A's balance b, A having the
\* fallback source B with budget f, returns b + d with
\* d = min(r' - b, f, balance of B), and leaves A's balance 0, the budget
\* f - d and B's balance lowered by d; the example gives 1200 and 300.
C8_FallbackDraw ==
    /\ LastIsAllocate =>
            C8_ShortfallDrawn(last.before, solution, last.citation, last.request, last.amount)
    /\ LET example == allocate_claim_amount(ExampleFallbackSolution, "A", 1200)
       IN /\ example.amount = 1200
          /\ example.solution.remaining_fallback_relationships["A"].balance = 300
          /\ C8_ShortfallDrawn(ExampleFallbackSolution, example.solution, "A", 1200, 1200)

\* A call granted the rest of its own balance and a shortfall drawn from
\* the fallback source, whose balance went down by that shortfall.
C8_Witness ==
    /\ LastIsAllocate
    /\ ReachesDraw(last.before, last.citation)
    /\ FallbackBudget(last.before, last.citation) > 0
    /\ last.before.unclaimed_exemptions[last.citation] > 0
    /\ last.amount > last.before.unclaimed_exemptions[last.citation]
    /\ FallbackBudget(solution, last.citation) < FallbackBudget(last.before, last.citation)

\* C9: for an exemption with item-claim count n and limit L, a call
\* returns at most L / n, at most n calls return a positive amount,
\* item_claim_exists is false once n calls were made while the citation was
\* not excluded, and the positive amounts total at most L.
C9_ItemClaims ==
    pc = "primitives" =>
        \A c \in Citations(jurisdiction) :
            ItemLimited(ExemptionOf(c)) =>
                LET n == ItemClaimCountOf(ExemptionOf(c))
                    L == LimitOf(ExemptionOf(c))
                IN /\ (last.op = "allocate" /\ last.citation = c) =>
                            last.amount * n <= L
                   /\ hist.positive[c] <= n
                   /\ hist.open[c] >= n => ~item_claim_exists(solution, c)
                   /\ hist.granted[c] <= L

\* n positive allocations that used up the limit L of an item-limited
\* exemption, after which no item claim exists.
C9_Witness ==
    /\ pc = "primitives"
    /\ \E c \in Citations(jurisdiction) :
         /\ ItemLimited(ExemptionOf(c))
         /\ hist.positive[c] = ItemClaimCountOf(ExemptionOf(c))
         /\ hist.granted[c] = LimitOf(ExemptionOf(c))
         /\ ~item_claim_exists(solution, c)

\* ----------------------------------------------------------- the scoring
\* The sample reached the comparison of line 399: both replays were made.
ReachedComparison ==
    /\ pc = "scored"
    /\ \/ score.stage = "compared"
       \/ score.raised = "AssertionError" /\ score.line = 399

\* The replay accepted the candidate in full: no claim was counted invalid,
\* and every claim value is a positive amount.
AcceptedInFull ==
    /\ ReachedComparison
    /\ score.predicted.invalid_claim_count = 0
    /\ \A i \in DOMAIN score.prediction.root :
         \A h \in DOMAIN score.prediction.root[i].claims :
            score.prediction.root[i].claims[h].claim_value > 0

\* C1: the total of the state solve_case_for_jurisdiction returns is the
\* minimum over the feasible assignments: no claim map that the replay
\* accepts in full for that jurisdiction has a smaller non-exempt total.
C1_SearchIsOptimal ==
    AcceptedInFull =>
        total_non_exempt_value(
            solve_case_for_jurisdiction(solver, case, score.predicted.jurisdiction))
            <= total_non_exempt_value(score.predicted.solution)

\* The scored candidate is the target itself.
ScoredTarget ==
    /\ pc = "scored"
    /\ score.prediction = target_as_prediction(dataset.target)

\* C11: scoring the target as the candidate reaches the comparison with no
\* claim counted invalid, the candidate's total equal to the replayed
\* target's, relative error 0 and invalid-claim ratio 0.
C11_TargetScoresPerfect ==
    ScoredTarget =>
        /\ score.raised = "none"
        /\ score.relative_error # NaN /\ score.relative_error.num = 0
        /\ score.invalid_claim_ratio # NaN /\ score.invalid_claim_ratio.num = 0
        /\ score.stage = "compared" =>
              /\ score.predicted.invalid_claim_count = 0
              /\ total_non_exempt_value(score.predicted.solution)
                    = total_non_exempt_value(score.optimal.solution)

\* The jurisdictions allowable in the state of the case
AllowableJurisdictions ==
    allowable_exemption_jurisdictions(solver.statute_set_map[case.state_jurisdiction])

SampleMade == pc \in { "sample", "scored" } /\ dataset.raised = "none"

\* C12: what solve_optimal_exemptions returned is the claimed_exemptions of
\* the state solve_case_for_jurisdiction produces for an allowable
\* jurisdiction whose total no other allowable jurisdiction's state is below.
C12_LowestJurisdiction ==
    SampleMade =>
        \E solutions \in { jurisdiction_solutions(solver, case, AllowableJurisdictions) } :
            \E i \in DOMAIN solutions :
                /\ solutions[i].claimed_exemptions = dataset.target
                /\ \A k \in DOMAIN solutions :
                     total_non_exempt_value(solutions[i])
                        <= total_non_exempt_value(solutions[k])

\* A sample of a state that has not opted out, whose state exemptions leave
\* less non-exempt than the federal ones, the first of the list.
C12_Witness ==
    /\ SampleMade
    /\ Len(AllowableJurisdictions) = 2
    /\ total_non_exempt_value(
            solve_case_for_jurisdiction(solver, case, AllowableJurisdictions[2]))
         < total_non_exempt_value(
            solve_case_for_jurisdiction(solver, case, AllowableJurisdictions[1]))
    /\ dataset.target # << >>

LastIsReplayClaim == pc = "replay" /\ last.op = "replay_claim"

\* The engine granted the claim of the last step less than its value
GrantedLess ==
    /\ LastIsReplayClaim
    /\ last.checked
    /\ last.allocation.amount < last.claim.claim_value

\* C14: when the engine, after the retry loop, granted a claim of the
\* candidate less than its value, the claim is counted invalid, the solution
\* the later claims are replayed on equals in every field the solution just
\* before the claim, and no asset's remaining value has changed.
C14_RejectedClaimLeavesNoTrace ==
    GrantedLess =>
        /\ score.predicted.invalid_claim_count = last.before.invalid_claim_count + 1
        /\ score.predicted.solution = last.before.solution
        /\ score.predicted.assets = last.before.assets

\* A claim granted in part: the allocation had drawn from the solution
\* before the claim was found over-allocated.
C14_Witness ==
    /\ GrantedLess
    /\ last.allocation.amount > 0
    /\ last.allocation.solution # last.before.solution
    /\ last.before.solution.claimed_exemptions # << >>

\* Line 311 on a claim map: no citation of it is in a catalog, or the first
\* that is belongs to a jurisdiction the case may not elect.
WithoutAllowableJurisdiction(claim_map) ==
    \/ detect_jurisdiction(evaluator, claim_map, TRUE) = NoJurisdiction
    \/ detect_jurisdiction(evaluator, claim_map, TRUE) \notin Range(AllowableJurisdictions)

\* Lines 312-314: no replay, the scores of the worst case
RejectedWhole ==
    /\ score.raised = "none"
    /\ score.predicted = NoReplay
    /\ score.invalid_claim_ratio = Fraction(1, 1)
    /\ score.relative_error = NaN
    /\ score.outcome = "fn"

ScoredCandidate == pc = "scored" /\ score.prediction.parsed

C2_AssertionNeverFails ==
    ReachedComparison =>
        total_non_exempt_value(score.optimal.solution)
            <= total_non_exempt_value(score.predicted.solution)


\* ------------------------------------------------------------ the search
Solved == pc = "solved"
Returned == Solved /\ ~IsError(result)

\* The case with its asset list in another order
Permuted(case_, p) ==
    [case_ EXCEPT !.assets = [i \in DOMAIN case_.assets |-> case_.assets[p[i]]]]

\* C16: for every permutation of the case's asset list for which the search
\* returns, solve_case_for_jurisdiction returns a state of the same
\* total_non_exempt_value as for the list in its given order.
C16_AssetOrderIrrelevant ==
    Returned =>
        \A p \in Permutations(DOMAIN case.assets) :
            \E permuted \in { solve_case_for_jurisdiction(solver, Permuted(case, p),
                                                          jurisdiction) } :
                IsError(permuted) \/
                    total_non_exempt_value(permuted) = total_non_exempt_value(result)

\* C3: recursive_optimal_exemption_search returns a state, for every case
\* and catalog: it never recurses until the interpreter's RecursionError.
C3_SearchTerminates == Solved => ~IsError(result)

\* What a solution records for an asset: the sum of its claim values, and
\* its entry in non_exempt_assets, 0 when there is none.
RECURSIVE SumClaims(_)
SumClaims(claims) ==
    IF claims = << >> THEN 0 ELSE Head(claims).claim_value + SumClaims(Tail(claims))

ClaimedValue(sol, description) ==
    IF \E i \in DOMAIN sol.claimed_exemptions :
            sol.claimed_exemptions[i].asset = description
    THEN SumClaims(
            sol.claimed_exemptions[
                CHOOSE i \in DOMAIN sol.claimed_exemptions :
                    sol.claimed_exemptions[i].asset = description].claims)
    ELSE 0

NonExemptValue(sol, description) ==
    IF description \in DOMAIN sol.non_exempt_assets
    THEN sol.non_exempt_assets[description] ELSE 0

\* C4: in the state solve_case_for_jurisdiction returns, every asset's
\* dollar_value is the sum of its claim values plus its non-exempt entry.
C4_ValueConserved ==
    Returned =>
        \A i \in DOMAIN case.assets :
            case.assets[i].dollar_value =
                ClaimedValue(result, case.assets[i].description)
                    + NonExemptValue(result, case.assets[i].description)

\* A returned state with an asset that is partly claimed and partly
\* non-exempt.
C4_Witness ==
    /\ Returned
    /\ \E i \in DOMAIN case.assets :
         /\ ClaimedValue(result, case.assets[i].description) > 0
         /\ NonExemptValue(result, case.assets[i].description) > 0

\* The single-pass greedy assignment: the assets in their given order, one
\* allocate_claim_amount call each on the first applicable exemption of the
\* jurisdiction, the rest of the value non-exempt.
RECURSIVE GreedyTotal(_, _)
GreedyTotal(assets, sol) ==
    IF assets = << >> THEN 0
    ELSE LET asset == Head(assets)
         IN IF asset.applicable_exemptions = << >>
            THEN asset.dollar_value + GreedyTotal(Tail(assets), sol)
            ELSE LET citation == asset.applicable_exemptions[1]
                     allocation == allocate_claim_amount(sol, citation, asset.dollar_value)
                     claimed == IF allocation.amount > 0
                                THEN claim_exemption(allocation.solution, citation,
                                                     asset.description, allocation.amount)
                                ELSE allocation.solution
                 IN (asset.dollar_value - allocation.amount)
                        + GreedyTotal(Tail(assets), claimed)

\* C10: the total of the state solve_case_for_jurisdiction returns is at
\* most the total of the single-pass greedy assignment.
C10_NotWorseThanGreedy ==
    Returned =>
        total_non_exempt_value(result) <=
            GreedyTotal(FilterAssets(solver, case.assets, jurisdiction),
                        init_solution(solver, case.married, jurisdiction))

\* An asset of the case none of whose applicable exemptions is a citation of
\* the solved jurisdiction
Foreign(asset) ==
    \A k \in DOMAIN asset.applicable_exemptions :
        asset.applicable_exemptions[k] \notin citations_for_jurisdictions(solver, jurisdiction)

\* C19: in the state solve_case_for_jurisdiction returns, an asset without an
\* applicable exemption of the solved jurisdiction is a non_exempt_assets
\* entry of its whole dollar_value and has no claimed_exemptions entry.
C19_ForeignAssetNonExempt ==
    Returned =>
        \A i \in DOMAIN case.assets :
            Foreign(case.assets[i]) =>
                /\ case.assets[i].description \in DOMAIN result.non_exempt_assets
                /\ result.non_exempt_assets[case.assets[i].description]
                      = case.assets[i].dollar_value
                /\ \A k \in DOMAIN result.claimed_exemptions :
                      result.claimed_exemptions[k].asset # case.assets[i].description

C19_Witness ==
    /\ Returned
    /\ \E i \in DOMAIN case.assets :
          /\ Foreign(case.assets[i])
          /\ case.assets[i].dollar_value > 1
    /\ result.claimed_exemptions # << >>

\* ------------------------------------------------- claims on SpecObjects
LastIsSolve == pc = "objects" /\ last.op = "solve"

\* The two translations of the search return the same state.
ObjectsAgree ==
    LastIsSolve =>
        result.value = solve_case_for_jurisdiction(solver, case, last.jurisdiction)

\* C17: no call of the search changes the list, the assets, the solution or
\* the incumbent it was passed, and after solve_case_for_jurisdiction the
\* Case's asset list and its assets are what they were.
C17_CallerObjectsKept ==
    LastIsSolve =>
        /\ result.kept
        /\ heap[CaseAssetsRef] = [i \in DOMAIN case.assets |-> 2 * Len(EngineTables) + i]
        /\ assets_at(heap, CaseAssetsRef) = case.assets

C17_Witness ==
    /\ LastIsSolve
    /\ ~IsError(result.value)
    /\ Len(case.assets) > 1
    /\ result.value.claimed_exemptions # << >>
    /\ result.value.non_exempt_assets # << >>

\* C18: whatever was allocated and claimed on the states init_solution
\* returned, the engine's tables are as Solver.__init__ left them, a new
\* init_solution returns the fresh state, and the state returned before the
\* current one is as its user left it.
C18_EngineIndependent ==
    pc = "objects" =>
        /\ SubSeq(heap, 1, 2 * Len(EngineTables)) = engine_cells(solver)
        /\ \A j \in Jurisdictions :
              \E made \in { init_solution_object(heap, case.married, j) } :
                 solution_at(made.heap, made.ref) = init_solution(solver, case.married, j)
        /\ hist.other # NoCall => solution_at(heap, hist.other.ref) = hist.other.value

C18_Witness ==
    /\ pc = "objects"
    /\ last.op = "claim"
    /\ hist.other # NoCall
    /\ solution_at(heap, solution).claimed_exemptions # << >>
    /\ solution_at(heap, solution) # init_solution(solver, case.married, jurisdiction)

\* C20: a later solve_case_for_jurisdiction of the same case for the same
\* jurisdiction on the same engine returns the claimed_exemptions and the
\* total of the first one, whatever was solved, allocated or claimed in
\* between.
C20_SameResultAgain ==
    (LastIsSolve /\ ~IsError(hist.first[last.jurisdiction])) =>
        /\ ~IsError(result.value)
        /\ result.value.claimed_exemptions = hist.first[last.jurisdiction].claimed_exemptions
        /\ total_non_exempt_value(result.value)
              = total_non_exempt_value(hist.first[last.jurisdiction])

C20_Witness ==
    /\ LastIsSolve
    /\ hist.solves[last.jurisdiction] = 2
    /\ hist.calls = 3
    /\ ~IsError(result.value)
    /\ result.value.claimed_exemptions # << >>

\* C22: a claim_exemption call for an exemption whose mutual_exclusion is
\* already in excluded_exemptions leaves excluded_exemptions as it was, with
\* that citation in it exactly once.
C22_ExclusionIdempotent ==
    (pc = "primitives" /\ last.op = "claim"
        /\ solution.exemptions[last.citation].mutual_exclusion # NoCitation
        /\ solution.exemptions[last.citation].mutual_exclusion
              \in Range(last.before.excluded_exemptions)) =>
        /\ solution.excluded_exemptions = last.before.excluded_exemptions
        /\ Cardinality({ i \in DOMAIN solution.excluded_exemptions :
                            solution.excluded_exemptions[i]
                                = solution.exemptions[last.citation].mutual_exclusion }) = 1

\* C23: for a citation with an item-claim count, a call made while it is
\* not excluded and a slot remains lowers its remaining count by exactly 1,
\* whatever it returns; a call made when no slot remains returns 0 and
\* leaves the state as it was; and no remaining count is negative.
C23_ItemSlots ==
    pc = "primitives" =>
        /\ \A c \in Citations(jurisdiction) :
              solution.remaining_item_claim_counts[c] # None =>
                  solution.remaining_item_claim_counts[c] >= 0
        /\ (last.op = "allocate"
                /\ last.before.remaining_item_claim_counts[last.citation] # None) =>
              /\ (last.citation \notin Range(last.before.excluded_exemptions)
                    /\ last.before.remaining_item_claim_counts[last.citation] >= 1) =>
                    solution.remaining_item_claim_counts[last.citation]
                        = last.before.remaining_item_claim_counts[last.citation] - 1
              /\ last.before.remaining_item_claim_counts[last.citation] < 1 =>
                    /\ last.amount = 0
                    /\ solution = last.before

\* A positive request for an item-limited citation that still has balance,
\* made after its slots were used up, one of them by a call that returned 0.
C23_Witness ==
    /\ LastIsAllocate
    /\ last.before.remaining_item_claim_counts[last.citation] = 0
    /\ last.citation \notin Range(last.before.excluded_exemptions)
    /\ last.request > 0
    /\ last.before.unclaimed_exemptions[last.citation] > 0
    /\ hist.positive[last.citation] < ItemClaimCountOf(ExemptionOf(last.citation))

\* The claims of a candidate's entry that share the citation of one of its
\* deduplicated claims
ClaimsMerged(claims, citation) ==
    Cardinality({ i \in DOMAIN claims : normalized_citation(claims[i]) = citation })

\* The claims of a claim map
RECURSIVE ClaimCount(_)
ClaimCount(claim_map) ==
    IF claim_map = << >> THEN 0
    ELSE Len(Head(claim_map).claims) + ClaimCount(Tail(claim_map))

\* The replay of a candidate (lines 320-352) with the number of the
\* candidate's claims it rejected (the claims of an entry that matches no
\* asset, and the claims merged into a deduplicated claim that the replay
\* counted invalid) and, per asset, the sum of the values of the
\* deduplicated claims it did not count invalid.  [replay, rejected, accepted]
RejectedInClaims(counted, k, claims, deduped) ==
    FoldLeft(LAMBDA state, claim :
                IF IsError(state.replay) THEN state
                ELSE \* what replay_claim makes of the claim
                     CHOOSE next \in
                        { IF IsError(after)
                          THEN [state EXCEPT !.replay = after]
                          ELSE IF after.invalid_claim_count > state.replay.invalid_claim_count
                          THEN [state EXCEPT
                                  !.replay = after,
                                  !.rejected = @ + ClaimsMerged(claims, claim.citation)]
                          ELSE [state EXCEPT
                                  !.replay = after,
                                  !.accepted[k] = @ + claim.claim_value] :
                            after \in { replay_claim(state.replay, k, claim) } } : TRUE,
             counted, deduped)

RejectedInEntry(state, entry) ==
    LET matching_asset_description ==
            find_matching_asset_description(
                entry.key,
                [i \in DOMAIN state.replay.assets |-> state.replay.assets[i].description])
    IN IF matching_asset_description = NoMatch
       THEN [state EXCEPT !.replay = replay_entry(state.replay, entry),
                          !.rejected = @ + Len(entry.claims)]
       ELSE RejectedInClaims(
                [state EXCEPT !.replay.total_claim_count = @ + Len(entry.claims)],
                AssetIndex(state.replay.assets, matching_asset_description),
                entry.claims, deduped_claims(entry.claims))

RejectedInReplay(replay, claim_map) ==
    FoldLeft(LAMBDA state, entry :
                IF IsError(state.replay) THEN state ELSE RejectedInEntry(state, entry),
             [replay |-> replay, rejected |-> 0,
              accepted |-> [i \in DOMAIN replay.assets |-> 0]],
             claim_map)

\* The candidate was replayed to its end: an invalid-claim ratio was computed
Replayed == pc = "scored" /\ score.prediction.parsed /\ score.predicted # NoReplay

\* C24: the invalid-claim ratio of a replayed candidate is the number of its
\* claims that the replay rejected over the number of its claims, hence 1
\* when every claim was rejected.
C24_RatioOfRejectedClaims ==
    Replayed =>
        \E counted \in { RejectedInReplay(
                            NewReplay(evaluator, case, score.predicted.jurisdiction, TRUE),
                            normalized_prediction(score.prediction.root)) } :
            /\ finished(counted.replay) = score.predicted
            /\ \E ratio \in { invalid_claim_ratio(score.predicted) } :
                  /\ ratio.num * ClaimCount(score.prediction.root)
                        = counted.rejected * ratio.den
                  /\ counted.rejected = ClaimCount(score.prediction.root)
                        => ratio.num = ratio.den

\* What C25 says of the asset that had dollar_value before the replay and
\* accepted claims of the given sum, in the solution the replay leaves
AssetAccounted(sol, description, dollar_value, sum) ==
    /\ sum <= dollar_value
    /\ dollar_value - sum > 0 =>
          /\ description \in DOMAIN sol.non_exempt_assets
          /\ sol.non_exempt_assets[description] = dollar_value - sum
    /\ dollar_value - sum <= 0 => description \notin DOMAIN sol.non_exempt_assets

\* C25: after the candidate replay, the claim values accepted for an asset
\* sum to at most its dollar_value, and its non_exempt_assets entry is the
\* dollar_value less that sum when this is positive and is absent otherwise.
C25_AssetsAccounted ==
    Replayed =>
        \E fresh \in { NewReplay(evaluator, case, score.predicted.jurisdiction, TRUE) } :
            \E counted \in { RejectedInReplay(
                                fresh, normalized_prediction(score.prediction.root)) } :
                \A i \in DOMAIN fresh.assets :
                    AssetAccounted(score.predicted.solution, fresh.assets[i].description,
                                   fresh.assets[i].dollar_value, counted.accepted[i])

\* Every claim value of the candidate is positive
PositiveCandidate ==
    \A i \in DOMAIN score.prediction.root :
        \A h \in DOMAIN score.prediction.root[i].claims :
            score.prediction.root[i].claims[h].claim_value > 0

\* The same for the candidates whose claim values are all positive; the
\* claims recorded for the asset are then the accepted ones.
C25_PositiveAssetsAccounted ==
    (Replayed /\ PositiveCandidate) =>
        \E fresh \in { NewReplay(evaluator, case, score.predicted.jurisdiction, TRUE) } :
            \E counted \in { RejectedInReplay(
                                fresh, normalized_prediction(score.prediction.root)) } :
                \A i \in DOMAIN fresh.assets :
                    /\ AssetAccounted(score.predicted.solution, fresh.assets[i].description,
                                      fresh.assets[i].dollar_value, counted.accepted[i])
                    /\ ClaimedValue(score.predicted.solution, fresh.assets[i].description)
                          = counted.accepted[i]

\* C26: the remaining balance of every limited exemption stays between 0 and
\* its limit for the marital status of the case, after any sequence of
\* allocate_claim_amount calls and for every requested amount, zero and
\* negative amounts included.
C26_BalanceWithinLimit ==
    pc = "primitives" =>
        \A c \in Citations(jurisdiction) :
            LimitOf(ExemptionOf(c)) # None =>
                /\ 0 <= solution.unclaimed_exemptions[c]
                /\ solution.unclaimed_exemptions[c] <= LimitOf(ExemptionOf(c))

\* C27: the item-claim retry loop of the replay (lines 342-344) ends for
\* every claim of a candidate in every state the replay reaches, also when
\* the claimed citation is item-limited with slots remaining and has been
\* excluded by an earlier accepted claim.
C27_RetryLoopEnds ==
    pc # "looping"

\* The citations a state holds recorded claims under
RecordedCitations(sol) ==
    UNION { { sol.claimed_exemptions[i].claims[h].citation :
                h \in DOMAIN sol.claimed_exemptions[i].claims } :
            i \in DOMAIN sol.claimed_exemptions }

\* No exemption with recorded claims names as its mutual_exclusion an
\* exemption with recorded claims
ExclusionsKept(sol) ==
    \A a \in RecordedCitations(sol) :
        sol.exemptions[a].mutual_exclusion \notin RecordedCitations(sol)

\* C28: no state built by the candidate replay holds recorded claims under
\* both an exemption and the exemption it names as its mutual_exclusion,
\* whichever of the two was claimed first and on whichever assets.
C28_ReplayKeepsExclusions ==
    Replayed => ExclusionsKept(score.predicted.solution)

\* The same for the states solve_case_for_jurisdiction returns.
C28_SearchKeepsExclusions ==
    Returned => ExclusionsKept(result)

\* C29: once an exemption is in excluded_exemptions, no later operation on
\* the state lowers its remaining balance, allocate_claim_amount calls for
\* an exemption that falls back on it included.
C29_ExcludedNeverDebited ==
    (pc = "primitives" /\ last.op # "none") =>
        \A b \in Range(last.before.excluded_exemptions) :
            (b \in DOMAIN solution.unclaimed_exemptions
                /\ last.before.unclaimed_exemptions[b] # None) =>
                solution.unclaimed_exemptions[b] >= last.before.unclaimed_exemptions[b]

\* The total value recorded under a citation in the i-th entry of
\* claimed_exemptions, the claims of one asset
RecordedUnder(sol, i, citation) ==
    SumClaims(SelectSeq(sol.claimed_exemptions[i].claims,
                        LAMBDA claim : claim.citation = citation))

\* No asset holds more than per_item_limit under an exemption that has a
\* per_item_limit and no item-claim count
PerItemLimitKept(sol) ==
    \A c \in DOMAIN sol.exemptions :
        (sol.exemptions[c].per_item_limit # None /\ sol.item_claim_amounts[c] = None) =>
            \A i \in DOMAIN sol.claimed_exemptions :
                RecordedUnder(sol, i, c) <= sol.exemptions[c].per_item_limit

\* C30: in every state built by the candidate replay, the total value
\* recorded for one asset under an exemption with a per_item_limit and no
\* item-claim count is at most per_item_limit, also when several asset
\* descriptions of the candidate match the same asset of the case.
C30_ReplayKeepsPerItemLimit ==
    pc = "replay" => PerItemLimitKept(score.predicted.solution)

\* The same for the states solve_case_for_jurisdiction returns.
C30_SearchKeepsPerItemLimit ==
    Returned => PerItemLimitKept(result)

\* A returned state that holds the whole per_item_limit for an asset worth
\* more.
C30_SearchWitness ==
    /\ Returned
    /\ \E c \in DOMAIN result.exemptions :
         /\ result.exemptions[c].per_item_limit # None
         /\ result.item_claim_amounts[c] = None
         /\ \E i \in DOMAIN case.assets, k \in DOMAIN result.claimed_exemptions :
               /\ case.assets[i].dollar_value > result.exemptions[c].per_item_limit
               /\ result.claimed_exemptions[k].asset = case.assets[i].description
               /\ RecordedUnder(result, k, c) = result.exemptions[c].per_item_limit

\* --------------------------------------------------- claims on SpecPrune
Searched == pc = "searched"

\* C21: the search returns a state whenever the search without the prune
\* step does and the two totals are equal, and the state it returns has no
\* larger total than the incumbent it was given.
C21_PruneKeepsResult ==
    Searched =>
        /\ IsError(result.pruned) <=> IsError(result.unpruned)
        /\ ~IsError(result.pruned) =>
              /\ ~IsError(result.unpruned) =>
                    total_non_exempt_value(result.pruned)
                        = total_non_exempt_value(result.unpruned)
              /\ hist.incumbent # NoSolution =>
                    total_non_exempt_value(result.pruned)
                        <= total_non_exempt_value(hist.incumbent)

\* The same for the calls in which both searches return
C21_PruneKeepsTotal ==
    (Searched /\ ~IsError(result.pruned) /\ ~IsError(result.unpruned)) =>
        /\ total_non_exempt_value(result.pruned) = total_non_exempt_value(result.unpruned)
        /\ hist.incumbent # NoSolution =>
              total_non_exempt_value(result.pruned)
                  <= total_non_exempt_value(hist.incumbent)

\* A call in which the prune step returned the incumbent itself
C21_Witness ==
    /\ Searched
    /\ hist.incumbent # NoSolution
    /\ result.pruned = hist.incumbent
    /\ ~IsError(result.unpruned)
    /\ result.unpruned # hist.incumbent
    /\ Len(case.assets) > 1

====
